---- MODULE Spec2Model ----
(***************************************************************************)
(* A model of the locomote build tools: the command registry and compiler  *)
(* (lib/commands.js, and its predecessor lib/load-commands.js), the        *)
(* execution engine they compile to, the core commands the engine drives   *)
(* and the run() entry point with the CLI's completion handling.           *)
(*                                                                         *)
(* Strings are TLA+ strings.  A string that the code splits on whitespace  *)
(* is a sequence of tokens, each a word or the whitespace token WS.        *)
(* Objects that the code shares by reference (scopes, definition sources)  *)
(* live in stores (heap, srcs) and are named by their index.               *)
(***************************************************************************)
EXTENDS Integers, Sequences, FiniteSets, TLC

VARIABLES
    variant,    \* which compiler/engine is loaded: "commands" or "load-commands"
    srcs,       \* the definition source objects, by source id
    defs,       \* run()'s defs parameter: the source ids to load, in order
    Commands,   \* the registry: command name -> compiled command
    loadIdx,    \* how many entries of defs run() has loaded so far
    heap,       \* scope objects; heap[1] is the env object given to run()
    stack,      \* call stack of compiled-command invocations, top last
    exc,        \* the error being thrown up the stack, or NoErr
    cmdName,    \* run()'s name parameter
    cmdArgs,    \* run()'s args parameter
    mainPc,     \* position of the entry point: load, run, wait, exit, exited
    cmdState,   \* the top-level command's promise: none, pending, resolved, rejected
    cmdErr,     \* the error the top-level command's promise rejected with
    runState,   \* run()'s own promise: pending, resolved, rejected
    runErr,     \* the error run()'s promise rejected with
    out,        \* what was written to the console, in order
    exitCode,   \* the process exit code, -1 while running
    lastRet,    \* record of the most recently returned command invocation
    lastCompile, \* record of the most recent compileCommand call
    world,      \* the working copy, its remote and the build record file
    coreLog,    \* records of the last two core commands that worked on them
    child,      \* the child process exec, npx or run spawned last
    proc,       \* a child process under support.exec: its output and the sinks
    watch,      \* a file watcher: collected changes, ticks and handler calls
    cli         \* the command line bin/locomote was started with, as parsed

vars == << variant, srcs, defs, Commands, loadIdx, heap, stack, exc, cmdName,
           cmdArgs, mainPc, cmdState, cmdErr, runState, runErr, out, exitCode,
           lastRet, lastCompile, world, coreLog, child, proc, watch, cli >>

-----------------------------------------------------------------------------
(* Bounds of the model. *)

\* run() is given at most this many definition sources after the core commands.
MaxDefs == 2
\* Nested command invocations deeper than this are not explored.
MaxDepth == 4

-----------------------------------------------------------------------------
(* Strings, templates and scopes. *)

WS == " "

NoErr == << "none", "" >>

\* Placeholders the templates of the model use, with the key each names.
Placeholders ==
    { << "{source}", "source" >>, << "{target}", "target" >>,
      << "{cwd}", "cwd" >>, << "{n}", "n" >>,
      << "{workspace}", "workspace" >>, << "{origin}", "origin" >> }

\* TT.eval( template, scope ): a placeholder resolves to the scope's value of
\* its key, the empty string when the key is unset; other text is literal.
TTeval(template, scope) ==
    IF \E p \in Placeholders : p[1] = template
    THEN LET k == (CHOOSE p \in Placeholders : p[1] = template)[2]
         IN  IF k \in DOMAIN scope THEN scope[k] ELSE ""
    ELSE template

\* Array.prototype.join(' ')
RECURSIVE JoinArgs(_)
JoinArgs(a) ==
    IF a = << >> THEN ""
    ELSE IF Len(a) = 1 THEN a[1]
    ELSE a[1] \o WS \o JoinArgs(Tail(a))

\* obj[key] = value, and Object.assign( {}, obj )
Put(obj, key, value) ==
    [ k \in DOMAIN obj \cup { key } |-> IF k = key THEN value ELSE obj[k] ]

\* String.prototype.split(/\s+/g) on a token sequence: every run of
\* whitespace tokens separates two fields; a leading or trailing run leaves
\* an empty first or last field.
RECURSIVE SplitFrom(_, _, _, _)
SplitFrom(s, i, acc, inWs) ==
    IF i > Len(s) THEN acc
    ELSE IF s[i] = WS
         THEN SplitFrom(s, i + 1, IF inWs THEN acc ELSE Append(acc, ""), TRUE)
         ELSE SplitFrom(s, i + 1,
                        [ acc EXCEPT ![Len(acc)] = acc[Len(acc)] \o s[i] ],
                        FALSE)

Split(s) == SplitFrom(s, 1, << "" >>, FALSE)

-----------------------------------------------------------------------------
(* Command definitions, as a definition file or module supplies them. *)

\* An action of a definition: a string (its tokens), an array
\* [ name, ...args ], a function, or a value of any other type.
StrAction(tokens) == [ t |-> "str", v |-> tokens ]
ArrAction(items)  == [ t |-> "arr", v |-> items ]
FnAction(fn)      == [ t |-> "fn", v |-> << fn >> ]
OtherAction       == [ t |-> "other", v |-> << >> ]
NoAction          == [ t |-> "none", v |-> << >> ]

\* The "actions" property: missing, an array of actions, or some other value.
Undef       == [ t |-> "undef", v |-> << >> ]
Arr(items)  == [ t |-> "array", v |-> items ]
NotAnArray  == [ t |-> "other", v |-> << >> ]

\* A definition given as an object.
Obj(args, lvars, action, actions, silentFail) ==
    [ fn |-> "", cname |-> "", args |-> args, vars |-> lvars, action |-> action,
      actions |-> actions, silentFail |-> silentFail, calls |-> << >> ]

\* A definition given as a function implementing the command.
Fn(fn) ==
    [ fn |-> fn, cname |-> "", args |-> << >>, vars |-> << >>,
      action |-> NoAction, actions |-> Undef, silentFail |-> FALSE,
      calls |-> << >> ]

\* The async function compileCommand builds: a closure over the command's
\* name, args, vars, calls and silentFail.
Closure(name, args, lvars, calls, silentFail) ==
    [ fn |-> "command", cname |-> name, args |-> args, vars |-> lvars,
      action |-> NoAction, actions |-> Undef, silentFail |-> silentFail,
      calls |-> calls ]

\* The core commands the model runs, each a function ( env, args ).
CoreNames ==
    << "mktemp", "cd", "exec", "npx", "rem", "git-clone", "git-push",
       "write-build-record", "read-build-record", "rmdir", "npm-install",
       "start-server" >>

CoreCommands == [ i \in 1..Len(CoreNames) |->
                    [ name |-> CoreNames[i], def |-> Fn(CoreNames[i]) ] ]

\* Core commands of the earlier core-commands.js files that the current
\* one no longer has.
OldCoreNames == << "temp-dir", "run" >>

OldCoreCommands == [ i \in 1..Len(OldCoreNames) |->
                       [ name |-> OldCoreNames[i],
                         def |-> Fn(OldCoreNames[i]) ] ]

\* The core commands run() starts from.
CoreCommandsOf(v) ==
    IF v = "commands" THEN CoreCommands ELSE CoreCommands \o OldCoreCommands

\* conf/std-build.json: heckle, webpack and build.
StdBuild ==
    << [ name |-> "heckle",
         def  |-> Obj(<< "source", "target" >>, << >>,
                      StrAction(<< "npx", WS, "heckle", WS, "build", WS,
                                   "{source}", WS, "{target}" >>),
                      Undef, FALSE) ],
       [ name |-> "webpack",
         def  |-> Obj(<< "source", "target" >>, << >>,
                      StrAction(<< "npx", WS, "webpack", WS, "{source}", WS,
                                   "{target}" >>),
                      Undef, TRUE) ],
       [ name |-> "build",
         def  |-> Obj(<< "source", "target" >>, << >>, NoAction,
                      Arr(<< StrAction(<< "heckle", WS, "{source}", WS,
                                          "{target}" >>),
                             StrAction(<< "webpack", WS, "{source}", WS,
                                          "{target}" >>) >>),
                      FALSE) ] >>

\* A project's own command file: a build in a temporary directory, a
\* command that calls itself until its job fails, a command whose action
\* names a command defined elsewhere (or nowhere), and one that does so
\* with silentFail.
CliDefs ==
    << [ name |-> "cli:build",
         def  |-> Obj(<< "source", "target" >>,
                      << << "source", "." >>, << "target", "_site" >> >>,
                      NoAction,
                      Arr(<< StrAction(<< "mktemp" >>),
                             StrAction(<< "build", WS, "{source}", WS,
                                          "{target}" >>),
                             ArrAction(<< "exec", "ls", "{cwd}" >>) >>),
                      FALSE) ],
       [ name |-> "cli:retry",
         def  |-> Obj(<< "n" >>, << >>, NoAction,
                      Arr(<< StrAction(<< "exec", WS, "job", WS, "{n}" >>),
                             StrAction(<< "cd", WS, "again" >>),
                             StrAction(<< "cli:retry", WS, "{cwd}" >>) >>),
                      TRUE) ],
       [ name |-> "cli:deploy",
         def  |-> Obj(<< "target" >>,
                      << << "target", "test" >>, << "cwd", "{target}" >> >>,
                      StrAction(<< "release", WS, "{target}" >>),
                      Undef, FALSE) ],
       [ name |-> "cli:publish",
         def  |-> Obj(<< >>, << >>, NoAction,
                      Arr(<< StrAction(<< "release", WS, "public" >>),
                             StrAction(<< "rem", WS, "released" >>) >>),
                      TRUE) ] >>

\* A second command file: it defines release, redefines webpack without
\* silentFail, and has a definition with both "actions" and "action".
MoreDefs ==
    << [ name |-> "release",
         def  |-> Obj(<< "target" >>, << >>, NoAction,
                      Arr(<< StrAction(<< "cd", WS, "{target}" >>),
                             FnAction("rem"),
                             StrAction(<< "exec", WS, "push", WS,
                                          "{cwd}" >>) >>),
                      FALSE) ],
       [ name |-> "webpack",
         def  |-> Obj(<< "source", "target" >>, << >>,
                      StrAction(<< "exec", WS, "wp", WS, "{source}" >>),
                      Undef, FALSE) ],
       [ name |-> "cli:both",
         def  |-> Obj(<< >>, << >>,
                      StrAction(<< "cd", WS, "out" >>),
                      Arr(<< StrAction(<< "rem", WS, "first" >>) >>),
                      FALSE) ] >>

\* Malformed command files: "actions" that is not an array, a definition
\* with no action at all, an action that is neither function, string nor
\* array.
NotArrayDefs ==
    << [ name |-> "cli:ok",
         def  |-> Obj(<< >>, << >>, StrAction(<< "rem" >>), Undef, FALSE) ],
       [ name |-> "cli:build",
         def  |-> Obj(<< >>, << >>, StrAction(<< "rem" >>), NotAnArray,
                      FALSE) ],
       [ name |-> "cli:late",
         def  |-> Obj(<< >>, << >>, StrAction(<< "rem" >>), Undef, FALSE) ] >>

NoActionDefs ==
    << [ name |-> "cli:deploy",
         def  |-> Obj(<< >>, << >>, StrAction(<< >>), Arr(<< >>), FALSE) ],
       [ name |-> "cli:late",
         def  |-> Obj(<< >>, << >>, StrAction(<< "rem" >>), Undef, FALSE) ] >>

BadActionDefs ==
    << [ name |-> "cli:both",
         def  |-> Obj(<< >>, << >>, StrAction(<< "rem" >>),
                      Arr(<< OtherAction >>), FALSE) ] >>

\* The command file of a site built into a branch of its own repository:
\* clone, build, push and clone again; build and push twice; write and
\* read the build record around a build, alone, with silentFail, and
\* below a command with silentFail.
GitDefs ==
    << [ name |-> "cli:site",
         def  |-> Obj(<< >>, << << "origin", "/srv/acme/site.git" >> >>,
                      NoAction,
                      Arr(<< StrAction(<< "git-clone", WS, "{origin}", WS,
                                          "test", WS, "site" >>),
                             StrAction(<< "npx", WS, "heckle" >>),
                             StrAction(<< "git-push", WS, "test", WS,
                                          "site" >>),
                             StrAction(<< "git-clone", WS, "{origin}", WS,
                                          "test", WS, "site" >>) >>),
                      FALSE) ],
       [ name |-> "cli:push",
         def  |-> Obj(<< >>, << >>, NoAction,
                      Arr(<< StrAction(<< "npx", WS, "heckle" >>),
                             StrAction(<< "git-push", WS, "test", WS,
                                          "site" >>),
                             StrAction(<< "git-push", WS, "test", WS,
                                          "site" >>) >>),
                      FALSE) ],
       [ name |-> "cli:stamp",
         def  |-> Obj(<< >>, << >>, NoAction,
                      Arr(<< StrAction(<< "write-build-record", WS, "site",
                                          WS, "out" >>),
                             StrAction(<< "npx", WS, "heckle" >>),
                             StrAction(<< "git-push", WS, "test", WS,
                                          "site" >>),
                             StrAction(<< "write-build-record", WS, "site",
                                          WS, "out" >>),
                             StrAction(<< "read-build-record", WS, "site",
                                          WS, "out", WS, "built" >>) >>),
                      FALSE) ],
       [ name |-> "cli:record",
         def  |-> Obj(<< >>, << >>, NoAction,
                      Arr(<< StrAction(<< "read-build-record", WS, "site",
                                          WS, "out", WS, "built" >>),
                             StrAction(<< "write-build-record", WS, "site",
                                          WS, "out" >>) >>),
                      TRUE) ],
       [ name |-> "cli:quiet",
         def  |-> Obj(<< >>, << >>, StrAction(<< "cli:stamp" >>), Undef,
                      TRUE) ] >>

GitCliNames ==
    { "cli:site", "cli:push", "cli:stamp", "cli:record", "cli:quiet" }

\* The definition sources run() can be given, by source id.
Sources ==
    << StdBuild, CliDefs, MoreDefs, NotArrayDefs, NoActionDefs, BadActionDefs >>

\* The id of that command file among the sources.
GitSource == Len(Sources) + 1

SourceIds == 1..Len(Sources)

\* Every command name that can be registered or asked for.
Names ==
    { CoreNames[i] : i \in 1..Len(CoreNames) }
        \cup { OldCoreNames[i] : i \in 1..Len(OldCoreNames) }
        \cup UNION { { Sources[s][i].name : i \in DOMAIN Sources[s] } :
                       s \in SourceIds }
        \cup { GitDefs[i].name : i \in DOMAIN GitDefs }
        \cup { "cli:nope" }

-----------------------------------------------------------------------------
(* The compiler: lib/commands.js, and lib/load-commands.js before it. *)

\* if( action ): undefined and the empty string are falsy.
Truthy(action) ==
    /\ action.t # "none"
    /\ ~(action.t = "str" /\ action.v = << >>)

\* A variant of CompileAction: a string is cut at every character of
\* whitespace, and the whitespace is kept among the arguments.
CompileActionKeepingSpace(action) ==
    IF action.t = "fn"
    THEN [ t |-> "fn", aname |-> action.v[1], aargs |-> << >> ]
    ELSE IF action.v = << >>
    THEN [ t |-> "call", aname |-> "undefined", aargs |-> << >> ]
    ELSE [ t |-> "call", aname |-> Head(action.v), aargs |-> Tail(action.v) ]

\* The body of actions.map: a function stays, a string is split into
\* [ name, ...args ], and the array's head is the command to call.
CompileAction(action) ==
    IF action.t = "fn"
    THEN [ t |-> "fn", aname |-> action.v[1], aargs |-> << >> ]
    ELSE LET a == IF action.t = "str" THEN Split(action.v) ELSE action.v
         IN  IF a = << >>
             THEN [ t |-> "call", aname |-> "undefined", aargs |-> << >> ]
             ELSE [ t |-> "call", aname |-> Head(a), aargs |-> Tail(a) ]

\* A variant of ActionsWithAction: the single action is put first.
ActionsWithActionFirst(definition) ==
    IF Truthy(definition.action)
    THEN << definition.action >> \o definition.actions.v
    ELSE definition.actions.v

\* The actions array compileCommand works on: definition.actions itself
\* when the definition has one, a new empty array otherwise, with the
\* single action pushed onto it.
ActionsWithAction(definition) ==
    IF Truthy(definition.action)
    THEN Append(definition.actions.v, definition.action)
    ELSE definition.actions.v

\* What actions.push( action ) leaves in the definition object: the array
\* is the definition's own unless the property was missing.
PushedDefinition(definition) ==
    IF Truthy(definition.action) /\ definition.actions.t = "array"
    THEN [ definition EXCEPT !.actions.v = ActionsWithAction(definition) ]
    ELSE definition

\* silentFail = false when the definition does not say.
SilentFailOf(definition) == definition.silentFail

\* compileCommand( name, definition ) of lib/commands.js.  The result says
\* whether it threw (err), what the definition object holds afterwards
\* (def) and the function attached to Commands (cmd, when attached).
CompileCommand(name, definition) ==
    IF definition.fn # ""
    THEN [ err |-> NoErr, def |-> definition, attached |-> TRUE,
           cmd |-> definition ]
    ELSE IF definition.actions.t = "other"
    THEN [ err |-> << "ReferenceError", "error is not defined" >>,
           def |-> definition, attached |-> FALSE, cmd |-> definition ]
    ELSE LET actions == ActionsWithAction(definition)
             after   == PushedDefinition(definition)
         IN  IF Len(actions) = 0
             THEN [ err |-> << "Error",
                        "Command must define an action or actions: " \o name >>,
                    def |-> after, attached |-> FALSE, cmd |-> definition ]
             ELSE IF \E i \in 1..Len(actions) :
                        actions[i].t \notin { "fn", "str", "arr" }
             THEN [ err |-> << "Error",
                        "Action must be a function, array or string: "
                            \o name >>,
                    def |-> after, attached |-> FALSE, cmd |-> definition ]
             ELSE [ err |-> NoErr, def |-> after, attached |-> TRUE,
                    cmd |-> Closure(name, definition.args, definition.vars,
                                [ i \in 1..Len(actions) |->
                                    CompileAction(actions[i]) ],
                                SilentFailOf(definition)) ]

\* compileCommand( command, definition ) of lib/load-commands.js: it reads
\* no silentFail, returns the function instead of attaching it, and
\* compileCommands stores the function in place of the definition.
CompileCommandLC(name, definition) ==
    IF definition.fn # ""
    THEN [ err |-> NoErr, def |-> definition, attached |-> TRUE,
           cmd |-> definition ]
    ELSE IF definition.actions.t = "other"
    THEN [ err |-> << "ReferenceError", "error is not defined" >>,
           def |-> definition, attached |-> FALSE, cmd |-> definition ]
    ELSE LET actions == ActionsWithAction(definition)
             after   == PushedDefinition(definition)
         IN  IF Len(actions) = 0
             THEN [ err |-> << "Error",
                        "Command must define an action or actions: " \o name >>,
                    def |-> after, attached |-> FALSE, cmd |-> definition ]
             ELSE IF \E i \in 1..Len(actions) :
                        actions[i].t \notin { "fn", "str", "arr" }
             THEN [ err |-> << "Error",
                        "Action must be a function, array or string: "
                            \o name >>,
                    def |-> after, attached |-> FALSE, cmd |-> definition ]
             ELSE LET fn == Closure(name, definition.args, definition.vars,
                                [ i \in 1..Len(actions) |->
                                    CompileAction(actions[i]) ],
                                FALSE)
                  IN  [ err |-> NoErr, def |-> fn, attached |-> TRUE,
                        cmd |-> fn ]

-----------------------------------------------------------------------------
(* The execution engine: the async function compileCommand returns. *)

\* Directories mkdtemp can create.
TmpDirs == { "/tmp/locomote-build-a", "/tmp/locomote-build-b" }

\* Exit codes of an external process.
ExitCodes == { 0, 1 }

\* A variant of AddVars: each template sees the variables set before it.
RECURSIVE AddVarsInTurn(_, _, _)
AddVarsInTurn(scope, lvars, env) ==
    IF lvars = << >> THEN scope
    ELSE AddVarsInTurn(Put(scope, Head(lvars)[1],
                           TTeval(Head(lvars)[2], scope)),
                       Tail(lvars), env)

\* for( const name in vars ) scope[name] = TT.eval( vars[name], env )
RECURSIVE AddVars(_, _, _)
AddVars(scope, lvars, env) ==
    IF lvars = << >> THEN scope
    ELSE AddVars(Put(scope, Head(lvars)[1], TTeval(Head(lvars)[2], env)),
                 Tail(lvars), env)

\* A variant of AddArgs: an argument the caller left out is bound to the
\* empty string.
RECURSIVE AddArgsAlways(_, _, _, _, _)
AddArgsAlways(scope, args, cargs, idx, env) ==
    IF idx > Len(args) THEN scope
    ELSE AddArgsAlways(Put(scope, args[idx],
                           IF idx <= Len(cargs)
                           THEN TTeval(cargs[idx], env) ELSE ""),
                       args, cargs, idx + 1, env)

\* args.forEach( ( arg, idx ) => { if( cargs[idx] ) scope[arg] = ... } )
RECURSIVE AddArgs(_, _, _, _, _)
AddArgs(scope, args, cargs, idx, env) ==
    IF idx > Len(args) THEN scope
    ELSE AddArgs(IF idx <= Len(cargs) /\ cargs[idx] # ""
                 THEN Put(scope, args[idx], TTeval(cargs[idx], env))
                 ELSE scope,
                 args, cargs, idx + 1, env)

\* A scope whose local variables are set after the positional
\* arguments.
DeriveScopeVarsLast(cmd, env, cargs) ==
    Put(AddVars(AddArgs(env, cmd.args, cargs, 1, env), cmd.vars, env),
        "__args__", JoinArgs(cargs))

\* The local scope of one invocation: a copy of env, the command's
\* variables, its positional arguments and __args__.
DeriveScope(cmd, env, cargs) ==
    Put(AddArgs(AddVars(env, cmd.vars, env), cmd.args, cargs, 1, env),
        "__args__", JoinArgs(cargs))

\* What the command function leaves in the env object it was called with:
\* lib/commands.js writes only to the copy, lib/load-commands.js sets
\* env.__args__.
EnvAfterEntry(env, cargs) ==
    IF variant = "commands" THEN env
    ELSE Put(env, "__args__", JoinArgs(cargs))

\* The object the command hands to its actions: "await fn( scope )" in
\* lib/commands.js, "await fn( env, null, _commands )" in
\* lib/load-commands.js.
ActionEnv(frame) ==
    IF variant = "commands" THEN frame.scope ELSE frame.env

\* Variants of Rethrow: a catch block that swallows every error, and one
\* that swallows none.
RethrowNever(cmd) == FALSE

RethrowAlways(cmd) == TRUE

\* catch( e ) { if( !silentFail ) throw e; }; lib/load-commands.js has no
\* try block, so every error leaves the command.
Rethrow(cmd) ==
    IF variant = "commands" THEN ~cmd.silentFail ELSE TRUE

\* A variant of CallArgs: the templates see the env the command was called
\* with, not the object its actions write to.
CallArgsFromEnv(call, frame) ==
    [ i \in 1..Len(call.aargs) |-> TTeval(call.aargs[i], heap[frame.env]) ]

\* aargs.map( arg => TT.eval( arg, env ) ), env being the object the
\* action was called with.
CallArgs(call, frame) ==
    [ i \in 1..Len(call.aargs) |->
        TTeval(call.aargs[i], heap[ActionEnv(frame)]) ]

NoCall == [ fn |-> "", cargs |-> << >> ]

\* Commands[aname], undefined when no command has that name.
Absent == Fn("")

\* A variant of Lookup: a missing command is taken for one that does
\* nothing.
LookupOrRem(commands, aname) ==
    IF aname \in DOMAIN commands THEN commands[aname] ELSE Fn("rem")

Lookup(commands, aname) ==
    IF aname \in DOMAIN commands THEN commands[aname] ELSE Absent

\* A new invocation of a compiled command, called with the env object
\* heap[envRef]; its scope becomes the next heap object.  (failures is
\* kept for the properties: the actions in which a git process exited
\* non-zero.)
NewFrame(cmd, envRef, cargs) ==
    [ cmd     |-> cmd,
      env     |-> envRef,
      scope   |-> Len(heap) + 1,
      pc      |-> 1,
      running |-> FALSE,
      cur     |-> NoCall,
      cargs   |-> cargs,
      snap    |-> heap[envRef],
      hist    |-> << >>,
      written |-> << >>,
      raised  |-> NoErr,
      failures |-> { } ]

HeapAfterEntry(cmd, envRef, cargs) ==
    Append([ heap EXCEPT ![envRef] = EnvAfterEntry(heap[envRef], cargs) ],
           DeriveScope(cmd, heap[envRef], cargs))

\* ensure( value, message )
Ensured(value) == value # ""

Arg(cargs, i) == IF i <= Len(cargs) THEN cargs[i] ELSE ""

\* The characters of the scope keys of the model, as String.prototype
\* methods see them.
Spelling ==
    [ k \in { "workspace", "target", "source", "origin", "cwd", "n", "built",
              "tmp", "server", "dir", "__args__", "Emode" } |->
        CASE k = "workspace" -> << "w", "o", "r", "k", "s", "p", "a", "c", "e" >>
          [] k = "target"    -> << "t", "a", "r", "g", "e", "t" >>
          [] k = "source"    -> << "s", "o", "u", "r", "c", "e" >>
          [] k = "origin"    -> << "o", "r", "i", "g", "i", "n" >>
          [] k = "cwd"       -> << "c", "w", "d" >>
          [] k = "n"         -> << "n" >>
          [] k = "built"     -> << "b", "u", "i", "l", "t" >>
          [] k = "tmp"       -> << "t", "m", "p" >>
          [] k = "server"    -> << "s", "e", "r", "v", "e", "r" >>
          [] k = "dir"       -> << "d", "i", "r" >>
          [] k = "__args__"  -> << "_", "_", "a", "r", "g", "s", "_", "_" >>
          [] k = "Emode"     -> << "E", "m", "o", "d", "e" >> ]

UpperCaseOf ==
    [ a |-> "A", b |-> "B", c |-> "C", d |-> "D", e |-> "E", g |-> "G",
      i |-> "I", k |-> "K", l |-> "L", m |-> "M", n |-> "N", o |-> "O",
      p |-> "P", r |-> "R", s |-> "S", t |-> "T", u |-> "U", v |-> "V",
      w |-> "W" ]

RECURSIVE Concat(_)
Concat(chars) ==
    IF chars = << >> THEN "" ELSE chars[1] \o Concat(Tail(chars))

\* key.toUpperCase()
ToUpperCase(key) ==
    Concat([ i \in 1..Len(Spelling[key]) |->
               IF Spelling[key][i] \in DOMAIN UpperCaseOf
               THEN UpperCaseOf[Spelling[key][i]] ELSE Spelling[key][i] ])

\* key.startsWith('_')
StartsWithUnderscore(key) == Spelling[key] # << >> /\ Spelling[key][1] = "_"

\* The environment variables of the process itself.
ProcessEnv == [ PATH |-> "/usr/bin" ]

\* The keys reduced into the child environment under the names they are
\* given there.  (No two keys of the model are given the same name.)
Reduced(env, keys, base) ==
    [ name \in { "LOCOMOTE_" \o ToUpperCase(k) : k \in keys }
               \cup DOMAIN base |->
        IF \E k \in keys : name = "LOCOMOTE_" \o ToUpperCase(k)
        THEN env[CHOOSE k \in keys : name = "LOCOMOTE_" \o ToUpperCase(k)]
        ELSE base[name] ]

\* exec: the scope's public keys on top of a copy of the process
\* environment.
RuntimeEnv(env) ==
    Reduced(env, { k \in DOMAIN env : ~StartsWithUnderscore(k) }, ProcessEnv)

\* run of the first core-commands.js: every key of the scope, on top of
\* an empty object.
RuntimeEnvOfRun(env) == Reduced(env, DOMAIN env, << >>)

\* bin/locomote has not been started.
NoCli ==
    [ command |-> << >>, args |-> << >>, E |-> << >>, server |-> FALSE,
      commands |-> FALSE ]

\* What npm-install finds on the file system, as far as it looks: a
\* node_modules directory in the source location, what readInfo says of
\* a local origin (the branch checked out there, "null", "throws", or
\* "unread"), and a node_modules directory in the origin.
NoFacts == [ sourceMods |-> FALSE, local |-> FALSE, originInfo |-> "unread",
             originMods |-> FALSE ]

\* getcwd( env ), relative to the process's directory.
Getcwd(env) == IF "cwd" \in DOMAIN env THEN env["cwd"] ELSE "."

\* No child process: the command that spawns it (fn), the scope its
\* environment is made from, that environment, its working directory,
\* and for npm-install its source argument, the source location (at),
\* what was done there (how: "link" or "spawn") and what was found.
NoChild ==
    [ fn |-> "", scope |-> << >>, renv |-> << >>, cwd |-> "", how |-> "",
      source |-> "", at |-> "", facts |-> NoFacts ]

\* The child process the core command fn spawns when called with the
\* scope env and the arguments cargs, if it gets that far.
Spawned(fn, env, cargs) ==
    CASE fn = "exec" /\ Ensured(Arg(cargs, 1)) ->
            [ NoChild EXCEPT !.fn = fn, !.scope = env,
                             !.renv = RuntimeEnv(env), !.cwd = Getcwd(env),
                             !.how = "spawn" ]
      [] fn = "npx" ->
            [ NoChild EXCEPT !.fn = fn, !.scope = env,
                             !.renv = RuntimeEnv(env), !.cwd = Getcwd(env),
                             !.how = "spawn" ]
      [] fn = "run" /\ cargs # << >> /\ "workspace" \in DOMAIN env ->
            [ NoChild EXCEPT !.fn = fn, !.scope = env,
                             !.renv = RuntimeEnvOfRun(env),
                             !.cwd = env["workspace"], !.how = "spawn" ]
      [] OTHER -> child

\* The core commands: every way the function fn can end when called with
\* the env object env and the arguments cargs, as the error it throws
\* (NoErr when it returns) and what it leaves in env.
CoreOutcomes(fn, env, cargs) ==
    CASE fn = "rem" ->
            { [ err |-> NoErr, env |-> env ] }
      [] fn = "cd" ->
            IF Ensured(Arg(cargs, 1))
            THEN { [ err |-> NoErr, env |-> Put(env, "cwd", cargs[1]) ] }
            ELSE { [ err |-> << "Error", "cd: <dir> argument is required" >>,
                     env |-> env ] }
      [] fn = "mktemp" ->
            { [ err |-> NoErr, env |-> Put(env, "cwd", d) ] : d \in TmpDirs }
                \cup { [ err |-> << "Error", "mkdtemp" >>, env |-> env ] }
      [] fn = "exec" ->
            IF Ensured(Arg(cargs, 1))
            THEN { [ err |-> IF code = 0 THEN NoErr
                             ELSE << "Error", "Command \"" \o JoinArgs(cargs)
                                        \o "\" exited with code 1" >>,
                     env |-> env ] : code \in ExitCodes }
            ELSE { [ err |-> << "Error",
                               "exec: <command> argument is required" >>,
                     env |-> env ] }
      [] fn = "npx" ->
            { [ err |-> IF code = 0 THEN NoErr
                        ELSE << "Error", "Command \""
                                   \o JoinArgs(<< "npx" >> \o cargs)
                                   \o "\" exited with code 1" >>,
                env |-> env ] : code \in ExitCodes }
      [] fn = "start-server" ->
            IF "server" \notin DOMAIN env
            THEN { [ err |-> << "Error",
                               "No \"server\" property in environment" >>,
                     env |-> env ] }
            ELSE IF Lookup(Commands, "ds:configure") = Absent
            THEN { [ err |-> << "Error", "ds:configure command not found" >>,
                     env |-> env ] }
            ELSE { [ err |-> NoErr, env |-> env ],
                   [ err |-> << "Error", "listen" >>, env |-> env ] }
      [] fn \in { "ds:webpack", "ds:file-api", "ds:heckle",
                   "ds:static-files" } ->
            { [ err |-> << "Error", "ds: \"mount\" server property is required" >>,
                env |-> env ] }
      [] fn = "run" ->
            IF cargs = << >>
            THEN { [ err |-> << "Error",
                               "run: <command> argument is required" >>,
                     env |-> env ] }
            ELSE IF "workspace" \notin DOMAIN env
            THEN { [ err |-> << "Error",
                               "run: <workspace> env var is required" >>,
                     env |-> env ] }
            ELSE { [ err |-> NoErr, env |-> env ] }
      [] OTHER ->
            { [ err |-> << "TypeError", fn \o " is not a function" >>,
                env |-> env ] }

-----------------------------------------------------------------------------
(* The working copy, its remote and the build record: what lib/git.js,     *)
(* lib/support.js and the git and build-record core commands work on.      *)

\* The remote the site is published to, and another one.
SiteOrigin == "/srv/acme/site.git"
OtherOrigin == "/srv/acme/other.git"

\* The same remote over https, and the project's own repository: the
\* directory the process runs in.
UrlOrigin == "https://git.acme.com/acme/site.git"
ProjectOrigin == "/work"

\* Path.basename and Path.dirname of the origins of the model.
OriginParts ==
    { [ url |-> SiteOrigin, dir |-> "/srv/acme", base |-> "site",
        ext |-> ".git", account |-> "acme" ],
      [ url |-> OtherOrigin, dir |-> "/srv/acme", base |-> "other",
        ext |-> ".git", account |-> "acme" ],
      [ url |-> UrlOrigin, dir |-> "https://git.acme.com/acme",
        base |-> "site", ext |-> ".git", account |-> "acme" ],
      [ url |-> ProjectOrigin, dir |-> "/", base |-> "work", ext |-> "",
        account |-> "" ],
      [ url |-> "/work/docs", dir |-> "/work", base |-> "docs", ext |-> "",
        account |-> "work" ] }

PartsOf(origin) == CHOOSE p \in OriginParts : p.url = origin

\* The dir argument under which the working copy lives, and the target
\* directory that holds the build record.
SitePath == "site"
OutPath == "out"

\* The directories build-from-git clones into, named after the source
\* and target branches, below the process's directory or a temporary one.
SourcePaths == { "master" } \cup { d \o "/master" : d \in TmpDirs }
TargetPaths == { "test" } \cup { d \o "/test" : d \in TmpDirs }

\* The path is that of the working copy that is built into and pushed.
AtSite(path) == path = SitePath \/ path \in TargetPaths

Branches == << "master", "test" >>

\* Hashes of the commits made during a run, in the order they are made.
Hashes == << "a1", "a2", "a3", "a4" >>

\* The first branch => commit pairs of refs, in the order of Branches.
RefNames(refs) == SelectSeq(Branches, LAMBDA b : b \in DOMAIN refs)

\* No working copy of the source branch.
NoCopy ==
    [ dir |-> "none", origin |-> "", tracking |-> << >>, head |-> "",
      commit |-> "", tracked |-> FALSE, staged |-> FALSE, dirty |-> FALSE ]

\* What a git process does: its exit code, the lines it writes to stdout
\* and the state it leaves.
Proc(code, stdout, w) == [ code |-> code, stdout |-> stdout, w |-> w ]

\* A git process that fails without touching anything.
Fatal(w) == Proc(128, << >>, w)

\* The branches of the remote that origin names, as a clone sees them.
RemoteRefs(w, origin) ==
    IF origin \in { SiteOrigin, UrlOrigin } THEN w.remote
    ELSE [ b \in { "master" } |-> "b0" ]

\* git <sub> <arg>, run in a directory that exists: every way it can end.
\* clone, checkout -B, add, push and pull can fail for reasons outside the
\* model (network, locks); the others fail when git says they do.
GitProc(w, sub, arg) ==
    CASE sub = "clone" ->
            IF w.dir # "none" THEN { Fatal(w) }
            ELSE { Fatal(w),
                   Proc(0, << >>,
                        [ w EXCEPT !.dir = "repo", !.origin = arg,
                                   !.tracking = RemoteRefs(w, arg),
                                   !.head = "master",
                                   !.commit = RemoteRefs(w, arg)["master"],
                                   !.tracked = TRUE, !.staged = FALSE,
                                   !.dirty = FALSE ]) }
      [] sub # "clone" /\ w.dir # "repo" -> { Fatal(w) }
      [] sub = "branch" /\ w.dir = "repo" ->
            { Proc(0,
                   (IF w.commit # ""
                    THEN << << "refs/heads/", w.head >> >> ELSE << >>)
                   \o [ i \in 1..Len(RefNames(w.tracking)) |->
                          << "refs/remotes/origin/", RefNames(w.tracking)[i] >> ],
                   w) }
      [] sub = "checkout -B" /\ w.dir = "repo" ->
            IF arg \in DOMAIN w.tracking
            THEN { Fatal(w),
                   Proc(0, << >>,
                        [ w EXCEPT !.head = arg, !.commit = w.tracking[arg],
                                   !.tracked = TRUE, !.staged = FALSE ]) }
            ELSE { Fatal(w) }
      [] sub = "checkout --orphan" /\ w.dir = "repo" ->
            IF w.head = arg /\ w.commit # "" THEN { Fatal(w) }
            ELSE { Proc(0, << >>,
                        [ w EXCEPT !.head = arg, !.commit = "",
                                   !.staged = w.tracked ]) }
      [] sub = "rm --cached" /\ w.dir = "repo" ->
            IF w.tracked
            THEN { Proc(0, << >>,
                        [ w EXCEPT !.tracked = FALSE,
                                   !.staged = w.commit # "",
                                   !.dirty = TRUE ]) }
            ELSE { Fatal(w) }
      [] sub = "clean" /\ w.dir = "repo" ->
            { Proc(0, << >>, [ w EXCEPT !.dirty = d ]) :
                d \in (IF w.tracked /\ w.dirty THEN { TRUE, FALSE }
                       ELSE { FALSE }) }
      [] sub = "add" /\ w.dir = "repo" ->
            { Fatal(w),
              Proc(0, << >>,
                   [ w EXCEPT !.staged = w.staged \/ w.dirty,
                              !.tracked = w.tracked \/ w.dirty,
                              !.dirty = FALSE ]) }
      [] sub = "commit" /\ w.dir = "repo" ->
            IF w.staged
            THEN { Proc(0, << >>,
                        [ w EXCEPT !.commit = Hashes[w.made + 1],
                                   !.made = w.made + 1,
                                   !.staged = FALSE ]) }
            ELSE { Proc(1, << << "nothing to commit" >> >>, w) }
      [] sub = "push" /\ w.dir = "repo" ->
            IF w.head = arg /\ w.commit # "" /\ w.origin # ""
            THEN { Fatal(w),
                   Proc(0, << >>,
                        [ w EXCEPT
                            !.tracking = Put(w.tracking, arg, w.commit),
                            !.remote = IF w.origin \in { SiteOrigin, UrlOrigin }
                                       THEN Put(w.remote, arg, w.commit)
                                       ELSE w.remote ]) }
            ELSE { Proc(1, << >>, w) }
      [] sub = "pull" /\ w.dir = "repo" ->
            { Fatal(w), Proc(0, << >>, w) }
      [] sub = "remote" /\ w.dir = "repo" ->
            { Proc(0,
                   IF w.origin # ""
                   THEN << << "origin", w.origin, " (fetch)" >>,
                           << "origin", w.origin, " (push)" >> >>
                   ELSE << >>,
                   w) }
      [] sub = "rev-parse" /\ w.dir = "repo" ->
            IF w.commit = "" THEN { Proc(128, << "HEAD" >>, w) }
            ELSE { Proc(0, << w.head >>, w) }
      [] sub = "log" /\ w.dir = "repo" ->
            IF w.commit = "" \/ arg # w.head THEN { Fatal(w) }
            ELSE { Proc(0, << << w.commit, "1465819027", "dev@acme.com",
                                 "A commit message" >> >>, w) }
      [] OTHER -> { Fatal(w) }

\* What is at a path: the working copy's directory, the target directory
\* of the build record, which is a plain directory, or nothing.
DirAt(w, path) ==
    IF AtSite(path) THEN w.dir
    ELSE IF path \in SourcePaths THEN w.src.dir
    ELSE IF path = OutPath THEN "plain" ELSE "none"

\* The working copy of the source branch in the place of the one that
\* is built into, and that one in its place.
Swapped(w) ==
    [ w EXCEPT !.dir = w.src.dir, !.origin = w.src.origin,
               !.tracking = w.src.tracking, !.head = w.src.head,
               !.commit = w.src.commit, !.tracked = w.src.tracked,
               !.staged = w.src.staged, !.dirty = w.src.dirty,
               !.src = [ dir |-> w.dir, origin |-> w.origin,
                         tracking |-> w.tracking, head |-> w.head,
                         commit |-> w.commit, tracked |-> w.tracked,
                         staged |-> w.staged, dirty |-> w.dirty ] ]

\* readInfo's result when there is nothing to describe (null).
NoInfo ==
    [ null |-> TRUE, name |-> "", account |-> "", commit |-> "",
      branch |-> "", remotes |-> << >> ]

\* A core command in progress: the files and repositories as they are
\* now (w), the env object it was given, the error it has thrown (err),
\* whether it has stopped without returning or throwing (end), the git
\* processes it has run (gitlog) and their arguments (gitargs), which of
\* them exited non-zero (failed) and which had their stderr printed
\* (shown), the value the last step returned (code and lines of a git
\* process; ok; info), and what npm-install did (spawn).
Begin(env, w) ==
    [ w |-> w, env |-> env, err |-> NoErr, end |-> "", gitlog |-> << >>,
      gitargs |-> << >>, failed |-> { }, shown |-> { }, code |-> 0,
      lines |-> << >>, ok |-> TRUE, info |-> NoInfo,
      json |-> [ truthy |-> FALSE, map |-> << >> ], spawn |-> NoChild ]

Ended(g) == g.err # NoErr \/ g.end # ""

\* await: the steps after an awaited call run unless it threw.
Then(S, F(_)) == UNION { IF Ended(g) THEN { g } ELSE F(g) : g \in S }

Ret(g, ok, info) ==
    [ g EXCEPT !.code = 0, !.lines = << >>, !.ok = ok, !.info = info ]

Throw(g, err) == [ Ret(g, g.ok, NoInfo) EXCEPT !.err = err ]

Includes(seq, x) == \E i \in 1..Len(seq) : seq[i] = x

\* git( path, ...args ): exec spawns git in path and resolves with its
\* exit code whatever it is; it rejects when the process cannot be
\* spawned, as when path does not exist.
Git(g, path, sub, arg) ==
    IF sub # "clone" /\ DirAt(g.w, path) = "none"
    THEN { Throw(g, << "Error", "spawn git ENOENT" >>) }
    ELSE { [ g EXCEPT !.w = r.w,
                      !.gitlog = Append(@, sub),
                      !.gitargs = Append(@, arg),
                      !.failed = IF r.code # 0
                                 THEN @ \cup { Len(g.gitlog) + 1 } ELSE @,
                      !.code = r.code,
                      !.lines = r.stdout ] :
             r \in (IF AtSite(path) THEN GitProc(g.w, sub, arg)
                    ELSE IF path \in SourcePaths
                    THEN { Proc(q.code, q.stdout, Swapped(q.w)) :
                             q \in GitProc(Swapped(g.w), sub, arg) }
                    ELSE { Fatal(g.w) }) }

\* clone( path, origin )
Clone(g, path, origin) ==
    Then(Git(g, path, "clone", origin), LAMBDA h : { Ret(h, TRUE, NoInfo) })

RemoteRefPrefix == "refs/remotes/origin/"

\* listAllBranches( path ): the names of the remote-tracking branches.
ListAllBranches(g, path) ==
    Then(Git(g, path, "branch", ""),
         LAMBDA h :
            LET refs == SelectSeq(h.lines, LAMBDA l : l[1] = RemoteRefPrefix)
            IN  { [ h EXCEPT !.lines = [ i \in 1..Len(refs) |-> refs[i][2] ] ] })

\* checkout( path, branch )
Checkout(g, path, branch) ==
    Then(ListAllBranches(g, path),
         LAMBDA h :
            IF Includes(h.lines, branch)
            THEN Then(Git(h, path, "checkout -B", branch),
                      LAMBDA k : { Ret(k, TRUE, NoInfo) })
            ELSE Then(Then(Then(Git(h, path, "checkout --orphan", branch),
                                LAMBDA k : Git(k, path, "rm --cached", ".")),
                           LAMBDA k : Git(k, path, "clean", "")),
                      LAMBDA k : { Ret(k, TRUE, NoInfo) }))

\* isOK( result ): prints the process's stderr, true when it exited 0.
IsOK(g) ==
    [ Ret(g, g.code = 0, NoInfo) EXCEPT !.shown = @ \cup { Len(g.gitlog) } ]

\* addAll( path )
AddAll(g, path) ==
    Then(Git(g, path, "add", "."), LAMBDA h : { IsOK(h) })

\* commit( path, message )
Commit(g, path) ==
    Then(Git(g, path, "commit", ""), LAMBDA h : { IsOK(h) })

\* push( path, branch )
Push(g, path, branch) ==
    IF branch = ""
    THEN { Throw(g, << "Error", "git-push: branch name is required" >>) }
    ELSE Then(Git(g, path, "push", branch), LAMBDA h : { IsOK(h) })

\* pull( path )
Pull(g, path) ==
    Then(Git(g, path, "pull", ""), LAMBDA h : { IsOK(h) })

RemoteOriginPrefix == "origin"
RemoteOriginSuffix == " (fetch)"

\* listRemotes( path ): the urls of the fetch lines of origin.
ListRemotes(g, path) ==
    Then(Git(g, path, "remote", ""),
         LAMBDA h :
            LET fetch == SelectSeq(h.lines,
                            LAMBDA l : /\ l[1] = RemoteOriginPrefix
                                       /\ l[3] = RemoteOriginSuffix)
            IN  { [ h EXCEPT !.lines =
                      [ i \in 1..Len(fetch) |-> fetch[i][2] ] ] })

\* readRepoName( origin ): the basename without a trailing ".git".
ReadRepoName(origin) ==
    IF PartsOf(origin).ext = ".git" THEN PartsOf(origin).base
    ELSE PartsOf(origin).base \o PartsOf(origin).ext

\* readAccountName( origin ): the basename of the dirname.
ReadAccountName(origin) == PartsOf(origin).account

\* readInfo( path ): null when path is no directory; with no remote
\* origin, as in a directory that is no working copy, Path.basename is
\* given undefined and throws.
ReadInfo(g, path) ==
    IF DirAt(g.w, path) = "none" THEN { Ret(g, TRUE, NoInfo) }
    ELSE Then(ListRemotes(g, path),
              LAMBDA h :
                 IF h.lines = << >>
                 THEN { Throw(h, << "TypeError",
                          "The \"path\" argument must be of type string" >>) }
                 ELSE LET remotes == h.lines
                          origin  == remotes[1]
                      IN  Then(Git(h, path, "rev-parse", ""),
                            LAMBDA k :
                              IF k.lines = << >>
                              THEN { Throw(k, << "Error",
                                       "Unable to read branch name from "
                                          \o path >>) }
                              ELSE LET branch == k.lines[1]
                                   IN  Then(Git(k, path, "log", branch),
                                         LAMBDA m :
                                           IF m.lines = << >>
                                           THEN { Throw(m, << "Error",
                                                    "Unable to read commit info from "
                                                       \o path >>) }
                                           ELSE { Ret(m, TRUE,
                                                    [ null |-> FALSE,
                                                      name |-> ReadRepoName(origin),
                                                      account |-> ReadAccountName(origin),
                                                      commit |-> m.lines[1][1],
                                                      branch |-> branch,
                                                      remotes |-> remotes ]) })))

\* rmDir( path ): rimraf removes the directory; its callback rejects on
\* an error and otherwise evaluates resolve without calling it, so the
\* promise is never settled.
RmDir(g, path) ==
    { [ g EXCEPT !.end = "hang",
                 !.w = IF AtSite(path)
                       THEN [ g.w EXCEPT !.dir = "none", !.origin = "",
                                         !.tracking = << >>, !.head = "",
                                         !.commit = "", !.tracked = FALSE,
                                         !.staged = FALSE, !.dirty = FALSE ]
                       ELSE IF path \in SourcePaths
                       THEN [ g.w EXCEPT !.src = NoCopy ]
                       ELSE g.w ] }

\* A JSON value read from the record file or given as the default.
Json(truthy, map) == [ truthy |-> truthy, map |-> map ]

\* The state of the record file of a target directory: the plain
\* directory, or the working copy that is built into, where the file is
\* taken to be the same on every branch.
RecordAt(w, target) ==
    IF target = OutPath \/ (target \in TargetPaths /\ w.dir # "none")
    THEN w.record
    ELSE [ state |-> "missing", map |-> << >> ]

\* readJSON( path, defaultValue ), defaultValue given.  JSON.parse runs in
\* the readFile callback: when it throws, the exception is not the
\* promise's and ends the process.
ReadJSON(g, target, defaultValue) ==
    LET rec == RecordAt(g.w, target)
    IN  CASE rec.state = "missing" ->
                { [ g EXCEPT !.json = defaultValue ] }
          [] rec.state = "unreadable" ->
                { Throw(g, << "Error", "EACCES: permission denied" >>) }
          [] rec.state = "malformed" ->
                { [ g EXCEPT !.end = "crash" ] }
          [] OTHER ->
                { [ g EXCEPT !.json = Json(TRUE, rec.map) ] }

\* writeJSON( path, data )
WriteJSON(g, target, data) ==
    IF target = OutPath
    THEN { [ g EXCEPT !.w.record = [ state |-> "ok", map |-> data ] ] }
    ELSE IF target \in TargetPaths /\ g.w.dir # "none"
    THEN { [ g EXCEPT !.w.record = [ state |-> "ok", map |-> data ],
                      !.w.dirty = IF g.w.dir = "repo"
                                     /\ g.w.record
                                           # [ state |-> "ok", map |-> data ]
                                  THEN TRUE ELSE @ ] }
    ELSE { Throw(g, << "Error", "ENOENT: no such file or directory" >>) }

\* resolveOrigin( ref ): a url or an absolute path stays, a relative path
\* is resolved against the process's directory.
ResolveOrigin(ref) ==
    IF \E p \in OriginParts : p.url = ref THEN ref
    ELSE IF ref = "." THEN ProjectOrigin ELSE "/work/" \o ref

\* Path.join( getcwd( env ), dir ), relative to the process's directory.
PathIn(env, dir) ==
    IF "cwd" \in DOMAIN env /\ env["cwd"] # "."
    THEN env["cwd"] \o "/" \o dir ELSE dir

\* const [ a, b, dir = b ] = args
DirArg(cargs, i) == IF i <= Len(cargs) THEN cargs[i] ELSE Arg(cargs, i - 1)

\* 'git-clone' of the core commands.
GitClone(g, cargs) ==
    LET originRef == Arg(cargs, 1)
        branch    == Arg(cargs, 2)
        path      == PathIn(g.env, DirArg(cargs, 3))
    IN  IF ~Ensured(originRef)
        THEN { Throw(g, << "Error",
                           "git-clone: <origin> argument is required" >>) }
        ELSE IF ~Ensured(branch)
        THEN { Throw(g, << "Error",
                           "git-clone: <branch> argument is required" >>) }
        ELSE Then(ReadInfo(g, path),
               LAMBDA h :
                 IF ~h.info.null
                 THEN IF ~Includes(h.info.remotes, ResolveOrigin(originRef))
                      THEN Then(Then(RmDir(h, path),
                                     LAMBDA k : Clone(k, path,
                                                  ResolveOrigin(originRef))),
                                LAMBDA k : Checkout(k, path, branch))
                      ELSE Then(Checkout(h, path, branch),
                                LAMBDA k : Pull(k, path))
                 ELSE Then(Clone(h, path, ResolveOrigin(originRef)),
                           LAMBDA k : Checkout(k, path, branch)))

\* 'git-clone' of lib/core-commands.js: the remote is env.remote, and of
\* a working copy in place it reads info.remote, which readInfo does not
\* return.
GitCloneOld(g, cargs) ==
    LET branch == Arg(cargs, 1)
        remote == IF "remote" \in DOMAIN g.env THEN g.env["remote"] ELSE ""
        path   == PathIn(g.env, DirArg(cargs, 2))
    IN  IF ~Ensured(branch)
        THEN { Throw(g, << "Error",
                           "git-clone: <branch> argument is required" >>) }
        ELSE IF ~Ensured(remote)
        THEN { Throw(g, << "Error",
                           "git-clone: <remote> env var is required" >>) }
        ELSE IF "workspace" \notin DOMAIN g.env
        THEN { Throw(g, << "Error",
                           "git-clone: <workspace> env var is required" >>) }
        ELSE Then(ReadInfo(g, path),
               LAMBDA h :
                 IF ~h.info.null
                 THEN { Throw(h, << "TypeError",
                          "Cannot read property 'contains' of undefined" >>) }
                 ELSE Then(Clone(h, path, remote),
                           LAMBDA k : Checkout(k, path, branch)))

\* The env asks for an update notification to be sent after a push.
Notifies(env) ==
    /\ { "sendUpdatesNotification", "updatesListenerHost",
         "updatesListenerPort" } \subseteq DOMAIN env
    /\ env["sendUpdatesNotification"] # ""
    /\ env["updatesListenerHost"] # ""
    /\ env["updatesListenerPort"] # ""

\* git-push with the push made whether or not the commit succeeded.
GitPushAlways(g, cargs) ==
    LET branch == Arg(cargs, 1)
        path   == PathIn(g.env, DirArg(cargs, 2))
    IN  IF ~Ensured(branch)
        THEN { Throw(g, << "Error",
                           "git-push: <branch> argument is required" >>) }
        ELSE Then(Then(AddAll(g, path), LAMBDA h : Commit(h, path)),
               LAMBDA h : Push(h, path, branch))

\* 'git-push' of the core commands: add, commit and, when the commit
\* succeeded, push.  Net is not required by the module, so sending the
\* notification throws.
GitPush(g, cargs) ==
    LET branch == Arg(cargs, 1)
        path   == PathIn(g.env, DirArg(cargs, 2))
    IN  IF ~Ensured(branch)
        THEN { Throw(g, << "Error",
                           "git-push: <branch> argument is required" >>) }
        ELSE Then(Then(AddAll(g, path), LAMBDA h : Commit(h, path)),
               LAMBDA h :
                 IF h.ok
                 THEN Then(Push(h, path, branch),
                        LAMBDA k :
                          IF Notifies(k.env)
                          THEN Then(ReadInfo(k, path),
                                 LAMBDA m :
                                   { Throw(m, << "ReferenceError",
                                               "Net is not defined" >>) })
                          ELSE { k })
                 ELSE { h })

\* 'git-push' of lib/core-commands.js: commit and push when add
\* succeeded; push is called without a branch.
GitPushOld(g, cargs) ==
    LET branch == Arg(cargs, 1)
        path   == PathIn(g.env, DirArg(cargs, 2))
    IN  IF ~Ensured(branch)
        THEN { Throw(g, << "Error",
                           "git-push: <branch> argument is required" >>) }
        ELSE IF "workspace" \notin DOMAIN g.env
        THEN { Throw(g, << "Error",
                           "git-push: <workspace> env var is required" >>) }
        ELSE Then(AddAll(g, path),
               LAMBDA h :
                 IF h.ok
                 THEN Then(Commit(h, path), LAMBDA k : Push(k, path, ""))
                 ELSE { h })

\* `${name}#${branch}`
RecordKey(info) == info.name \o "#" \o info.branch

NullInfoError ==
    << "TypeError", "Cannot destructure property 'name' of null" >>

\* A write-build-record that replaces the record by the new entry.
WriteBuildRecordReplace(g, cargs) ==
    LET source == Arg(cargs, 1)
        target == Arg(cargs, 2)
    IN  IF ~Ensured(source) \/ ~Ensured(target)
        THEN { Throw(g, << "Error", "write-build-record: argument is required" >>) }
        ELSE Then(Then(ReadJSON(g, PathIn(g.env, target), Json(TRUE, << >>)),
                       LAMBDA h : ReadInfo(h, PathIn(h.env, source))),
               LAMBDA h :
                 IF h.info.null THEN { Throw(h, NullInfoError) }
                 ELSE WriteJSON(h, PathIn(h.env, target),
                                Put(<< >>, RecordKey(h.info), h.info.commit)))

\* 'write-build-record' of the core commands.
WriteBuildRecord(g, cargs) ==
    LET source == Arg(cargs, 1)
        target == Arg(cargs, 2)
    IN  IF ~Ensured(source)
        THEN { Throw(g, << "Error",
                  "write-build-record: <source> argument is required" >>) }
        ELSE IF ~Ensured(target)
        THEN { Throw(g, << "Error",
                  "write-build-record: <target> argument is required" >>) }
        ELSE Then(Then(ReadJSON(g, PathIn(g.env, target), Json(TRUE, << >>)),
                       LAMBDA h : ReadInfo(h, PathIn(h.env, source))),
               LAMBDA h :
                 IF h.info.null THEN { Throw(h, NullInfoError) }
                 ELSE WriteJSON(h, PathIn(h.env, target),
                                Put(h.json.map, RecordKey(h.info),
                                    h.info.commit)))

\* A read-build-record that finds no entry whatever the record holds.
ReadBuildRecordNoEntry(g, cargs) ==
    LET source == Arg(cargs, 1)
        target == Arg(cargs, 2)
        name   == Arg(cargs, 3)
    IN  IF ~Ensured(source) \/ ~Ensured(target) \/ ~Ensured(name)
        THEN { Throw(g, << "Error", "read-build-record: argument is required" >>) }
        ELSE Then(ReadJSON(g, PathIn(g.env, target), Json(FALSE, << >>)),
               LAMBDA h :
                 IF h.json.truthy
                 THEN Then(ReadInfo(h, PathIn(h.env, source)),
                        LAMBDA k :
                          IF k.info.null THEN { Throw(k, NullInfoError) }
                          ELSE { [ k EXCEPT !.env =
                                     Put(k.env, name, "undefined") ] })
                 ELSE { h })

\* 'read-build-record' of the core commands; record[key] of a record
\* without the key is undefined, and env[name] is then set to it.
ReadBuildRecord(g, cargs) ==
    LET source == Arg(cargs, 1)
        target == Arg(cargs, 2)
        name   == Arg(cargs, 3)
    IN  IF ~Ensured(source)
        THEN { Throw(g, << "Error",
                  "read-build-record: <source> argument is required" >>) }
        ELSE IF ~Ensured(target)
        THEN { Throw(g, << "Error",
                  "read-build-record: <target> argument is required" >>) }
        ELSE IF ~Ensured(name)
        THEN { Throw(g, << "Error",
                  "read-build-record: <name> argument is required" >>) }
        ELSE Then(ReadJSON(g, PathIn(g.env, target), Json(FALSE, << >>)),
               LAMBDA h :
                 IF h.json.truthy
                 THEN Then(ReadInfo(h, PathIn(h.env, source)),
                        LAMBDA k :
                          IF k.info.null THEN { Throw(k, NullInfoError) }
                          ELSE { [ k EXCEPT !.env =
                                     Put(k.env, name,
                                         IF RecordKey(k.info)
                                               \in DOMAIN k.json.map
                                         THEN k.json.map[RecordKey(k.info)]
                                         ELSE "undefined") ] })
                 ELSE { h })

\* The core commands that work on the working copy or the build record.
WorldNames ==
    { "git-clone", "git-push", "write-build-record", "read-build-record",
      "rmdir", "temp-dir", "npm-install" }

\* Path.resolve( cwd, path )
Resolved(env, path) ==
    IF path = "."
    THEN (IF "cwd" \in DOMAIN env THEN env["cwd"] ELSE ".")
    ELSE PathIn(env, path)

\* /^(https?|ssh):/.test( origin )
IsLocalOrigin(origin) == origin # UrlOrigin

\* What readInfo can say of a local origin.
OriginInfos == { "null", "throws", "master", "test" }

\* npm-install: link the origin's node_modules into the source location
\* when the source has none and the origin is a local working copy of the
\* source branch that has one; otherwise run npm install through exec,
\* with Object.assign( { cwd: sourcePath }, env ) as its env.
NpmInstall(g, cargs) ==
    LET source     == Arg(cargs, 1)
        originRef  == Arg(cargs, 2)
        sourcePath == Resolved(g.env, source)
        local      == Ensured(originRef)
                         /\ IsLocalOrigin(ResolveOrigin(originRef))
        env_       == IF "cwd" \in DOMAIN g.env THEN g.env
                      ELSE Put(g.env, "cwd", sourcePath)
        Done(h, how, facts) ==
            [ h EXCEPT !.spawn =
                [ NoChild EXCEPT !.fn = "npm-install", !.how = how,
                                 !.source = source, !.at = sourcePath,
                                 !.facts = facts,
                                 !.scope = IF how = "spawn" THEN env_ ELSE @,
                                 !.renv = IF how = "spawn"
                                          THEN RuntimeEnv(env_) ELSE @,
                                 !.cwd = IF how = "spawn"
                                         THEN Getcwd(env_) ELSE @ ] ]
        Install(facts) ==
            { Done(IF code = 0 THEN g
                   ELSE Throw(g, << "Error",
                          "Command \"npm install\" exited with code 1" >>),
                   "spawn", facts) : code \in ExitCodes }
        Link(facts) ==
            { Done(g, "link", facts),
              Done(Throw(g, << "Error", "EEXIST: file already exists" >>),
                   "link", facts) }
        Facts(sm, info, om) ==
            [ sourceMods |-> sm, local |-> local, originInfo |-> info,
              originMods |-> om ]
    IN  IF ~Ensured(source)
        THEN { Throw(g, << "Error",
                           "npm-install: <source> argument is required" >>) }
        ELSE Install(Facts(TRUE, "unread", FALSE))
             \cup (IF ~local THEN Install(Facts(FALSE, "unread", FALSE))
                   ELSE UNION {
                     IF info = "throws"
                     THEN { Done(Throw(g, << "TypeError",
                              "The \"path\" argument must be of type string" >>),
                              "", Facts(FALSE, info, FALSE)) }
                     ELSE IF info = source
                     THEN Link(Facts(FALSE, info, TRUE))
                             \cup Install(Facts(FALSE, info, FALSE))
                     ELSE Install(Facts(FALSE, info, FALSE)) :
                     info \in OriginInfos })

\* rmdir: remove a directory and all its contents.
Rmdir(g, cargs) ==
    IF ~Ensured(Arg(cargs, 1))
    THEN { Throw(g, << "Error", "rmdir: <path> argument is required" >>) }
    ELSE RmDir(g, Resolved(g.env, cargs[1]))
            \cup { Throw(g, << "Error", "rimraf" >>) }

\* temp-dir of the earlier core-commands.js: make a temporary directory
\* and write its path to the variable named.
TempDir(g, cargs) ==
    IF ~Ensured(Arg(cargs, 1))
    THEN { Throw(g, << "Error", "temp-dir: <name> argument is required" >>) }
    ELSE { [ g EXCEPT !.end = "hang", !.env = Put(g.env, cargs[1], d) ] :
             d \in TmpDirs }
            \cup { Throw(g, << "Error", "mkdtemp" >>) }

\* A build tool run by exec or npx may write files into the working copy.
AfterExec(w) ==
    IF w.dir = "repo" THEN { w, [ w EXCEPT !.dirty = TRUE ] } ELSE { w }

\* Every way the core command fn can end, with the files and
\* repositories it leaves.
WorldOutcomes(fn, env, cargs, w) ==
    LET g == Begin(env, w)
    IN  CASE fn = "git-clone" ->
                IF variant = "commands" THEN GitClone(g, cargs)
                ELSE GitCloneOld(g, cargs)
          [] fn = "git-push" ->
                IF variant = "commands" THEN GitPush(g, cargs)
                ELSE GitPushOld(g, cargs)
          [] fn = "write-build-record" -> WriteBuildRecord(g, cargs)
          [] fn = "read-build-record" -> ReadBuildRecord(g, cargs)
          [] fn = "rmdir" -> Rmdir(g, cargs)
          [] fn = "npm-install" -> NpmInstall(g, cargs)
          [] fn = "temp-dir" -> TempDir(g, cargs)
          [] OTHER ->
                UNION { { [ g EXCEPT !.err = o.err, !.env = o.env, !.w = v ] :
                            v \in (IF fn \in { "exec", "npx" } /\ o.err = NoErr
                                   THEN AfterExec(w) ELSE { w }) } :
                        o \in CoreOutcomes(fn, env, cargs) }

-----------------------------------------------------------------------------
(* The dev server's watchers: watchFiles of lib/server/file-api.js and
   watchSource of lib/server/heckle.js. *)

\* How many file system events and how many timer ticks a run has.
MaxEvents == 2
MaxTicks == 2

\* The directory watched and the files in it, as directory and path
\* below it.
WatchRoot == "/work/site"
WatchedFiles == { << WatchRoot, "a.txt" >>, << WatchRoot, "b.txt" >> }

\* The event types chokidar reports for files.
EventTypes == { "add", "change", "unlink" }

\* Path.relative( path, file )
Relative(path, file) == IF file[1] = path THEN file[2] ELSE file[1] \o "/" \o file[2]

NoWatch ==
    [ kind |-> "none", additions |-> << >>, deletions |-> << >>,
      changes |-> << >>, happened |-> << >>, ticks |-> 0, calls |-> << >>,
      running |-> << >>, errors |-> 0 ]

\* What is kept of an event: the path, and (for the record only) the
\* number of the event.
Noted(w, file) ==
    [ id |-> Len(w.happened) + 1, file |-> Relative(WatchRoot, file) ]

\* The event as it happened, the tick before it, and whether a handler
\* noted it.
Happened(w, type, file, noted) ==
    Append(w.happened, [ id |-> Len(w.happened) + 1, type |-> type,
                         file |-> Relative(WatchRoot, file),
                         window |-> w.ticks, noted |-> noted ])

\* watchFiles: .on('all', ( type, file ) => ...)
OnAll(w, type, file) ==
    CASE type \in { "add", "change" } ->
            [ w EXCEPT !.additions = Append(@, Noted(w, file)),
                       !.happened = Happened(w, type, file, TRUE) ]
      [] type = "unlink" ->
            [ w EXCEPT !.deletions = Append(@, Noted(w, file)),
                       !.happened = Happened(w, type, file, TRUE) ]
      [] OTHER -> [ w EXCEPT !.happened = Happened(w, type, file, FALSE) ]

\* watchSource: .on('change', ( file ) => ...); no handler is registered
\* for the other events.
OnChange(w, type, file) ==
    IF type = "change"
    THEN [ w EXCEPT !.changes = Append(@, Noted(w, file)),
                    !.happened = Happened(w, type, file, TRUE) ]
    ELSE [ w EXCEPT !.happened = Happened(w, type, file, FALSE) ]

\* A call of addFiles, removeFiles or build, with the paths it is given,
\* and the callback it is made from, with the deletions it has captured.
Called(tick, fn, given, dels) ==
    [ tick |-> tick, fn |-> fn, given |-> given, dels |-> dels ]

\* watchFiles: the interval callback up to its first await.
TickFiles(w) ==
    [ w EXCEPT !.ticks = @ + 1, !.additions = << >>, !.deletions = << >>,
               !.calls = Append(@, Called(w.ticks + 1, "addFiles",
                                          w.additions, w.deletions)),
               !.running = Append(@, Called(w.ticks + 1, "addFiles",
                                            w.additions, w.deletions)) ]

\* watchSource: the interval callback.
TickSource(w) ==
    IF w.changes # << >>
    THEN [ w EXCEPT !.ticks = @ + 1, !.changes = << >>,
                    !.calls = Append(@, Called(w.ticks + 1, "build",
                                               w.changes, << >>)),
                    !.running = Append(@, Called(w.ticks + 1, "build",
                                                 w.changes, << >>)) ]
    ELSE [ w EXCEPT !.ticks = @ + 1 ]

Without(q, i) == SubSeq(q, 1, i - 1) \o SubSeq(q, i + 1, Len(q))

\* The promise the callback running[i] awaits is resolved: after addFiles
\* the callback calls removeFiles, after removeFiles it ends; a build
\* that nobody awaits just ends.
Continued(w, i) ==
    IF w.running[i].fn = "addFiles"
    THEN [ w EXCEPT !.running[i] = Called(@.tick, "removeFiles", @.dels,
                                          @.dels),
                    !.calls = Append(@, Called(w.running[i].tick,
                                               "removeFiles",
                                               w.running[i].dels,
                                               w.running[i].dels)) ]
    ELSE [ w EXCEPT !.running = Without(@, i) ]

\* It is rejected: the callback logs the error and ends.
Rejected(w, i) ==
    [ w EXCEPT !.running = Without(@, i), !.errors = @ + 1 ]

-----------------------------------------------------------------------------
(* lib/support.js: exec and drain. *)

NL == "\n"

\* The longest output of a process on stdout and on stderr, and the most
\* characters one data event brings.
MaxOut == 3
MaxErrOut == 2
MaxChunk == 3

Streams == { "stdout", "stderr" }

RECURSIVE SplitLines(_)
\* buffer.split('\n')
SplitLines(buffer) ==
    IF \A i \in 1..Len(buffer) : buffer[i] # NL
    THEN << buffer >>
    ELSE LET i == CHOOSE i \in 1..Len(buffer) :
                    /\ buffer[i] = NL
                    /\ \A j \in 1..(i - 1) : buffer[j] # NL
         IN  << SubSeq(buffer, 1, i - 1) >>
                \o SplitLines(SubSeq(buffer, i + 1, Len(buffer)))

\* A drain that takes the input as fully read whatever it is told.
DrainAll(buffer, done) ==
    [ lines |-> SplitLines(buffer), result |-> << >> ]

\* drain( buffer, sink, done ): the lines written to the sink, in order,
\* and the result returned (nothing when done).
Drain(buffer, done) ==
    LET lines == SplitLines(buffer)
    IN  IF ~done
        THEN [ lines |-> SubSeq(lines, 1, Len(lines) - 1),
               result |-> lines[Len(lines)] ]
        ELSE [ lines |-> lines, result |-> << >> ]

NoProc ==
    [ st |-> "none",
      output |-> [ s \in Streams |-> << >> ],
      sent |-> [ s \in Streams |-> 0 ],
      buf |-> [ s \in Streams |-> << >> ],
      sunk |-> [ s \in Streams |-> << >> ],
      chunks |-> [ s \in Streams |-> 0 ],
      code |-> 0, settled |-> "pending", value |-> -1 ]

\* proc.stdout.on('data') and proc.stderr.on('data'): the next n
\* characters of the stream arrive.
OnData(p, s, n) ==
    LET data == SubSeq(p.output[s], p.sent[s] + 1, p.sent[s] + n)
        d    == Drain(p.buf[s] \o data, FALSE)
    IN  [ p EXCEPT !.sent[s] = @ + n, !.chunks[s] = @ + 1,
                   !.sunk[s] = @ \o d.lines, !.buf[s] = d.result ]

\* proc.on('close'): both buffers are drained for good and the promise
\* is resolved with the exit code.
OnClose(p, code) ==
    [ p EXCEPT !.st = "closed", !.code = code,
               !.sunk = [ s \in Streams |-> @[s] \o Drain(p.buf[s], TRUE).lines ],
               !.settled = IF @ = "pending" THEN "resolved" ELSE @,
               !.value = IF p.settled = "pending" THEN code ELSE @ ]

\* proc.on('error'): the promise is rejected.
OnError(p) ==
    [ p EXCEPT !.st = "failed",
               !.settled = IF @ = "pending" THEN "rejected" ELSE @ ]

\* No working copy, a remote with its first branch only, no build record.
NoWorld ==
    [ dir |-> "none", origin |-> "", tracking |-> << >>, head |-> "",
      commit |-> "", tracked |-> FALSE, staged |-> FALSE, dirty |-> FALSE,
      src |-> NoCopy,
      remote |-> [ b \in { "master" } |-> "s0" ],
      record |-> [ state |-> "missing", map |-> << >> ], made |-> 0 ]

\* The record of one core command call, kept for the properties.
NoCore ==
    [ fn |-> "", cargs |-> << >>, gitlog |-> << >>, gitargs |-> << >>,
      failed |-> { },
      shown |-> { }, err |-> NoErr, end |-> "", before |-> NoWorld,
      after |-> NoWorld, envBefore |-> << >>, envAfter |-> << >>,
      silentAbove |-> FALSE ]

CoreRecord(fn, cargs, env, w, g, silentAbove) ==
    [ fn |-> fn, cargs |-> cargs, gitlog |-> g.gitlog,
      gitargs |-> g.gitargs, failed |-> g.failed,
      shown |-> g.shown, err |-> g.err, end |-> g.end, before |-> w,
      after |-> g.w, envBefore |-> env, envAfter |-> g.env,
      silentAbove |-> silentAbove ]

-----------------------------------------------------------------------------
(* Records kept for the properties: what each invocation did.  They are   *)
(* written by the actions and never read by them.                          *)

Event(e, i, err, cargs, written) ==
    [ e |-> e, i |-> i, err |-> err, cargs |-> cargs, w |-> written ]

Started(frame, cargs) ==
    [ frame EXCEPT !.hist =
        Append(@, Event("start", frame.pc, NoErr, cargs, frame.written)) ]

Completed(frame) ==
    [ frame EXCEPT !.hist =
                       Append(@, Event("done", frame.pc, NoErr, << >>,
                                       frame.written)),
                   !.pc = @ + 1, !.running = FALSE, !.cur = NoCall ]

\* A catch inside the loop over the actions: the failed action is noted
\* as finished and the loop goes on.
RaisedAsDone(frame, err) ==
    [ frame EXCEPT !.hist =
                       Append(@, Event("done", frame.pc, NoErr, << >>,
                                       frame.written)),
                   !.pc = @ + 1, !.running = FALSE, !.cur = NoCall ]

Raised(frame, err) ==
    [ frame EXCEPT !.hist =
                       Append(@, Event("raise", frame.pc, err, << >>,
                                       frame.written)),
                   !.raised = err, !.running = FALSE, !.cur = NoCall ]

\* The keys an action set in the object it was given, with their values.
Writes(before, after, written) ==
    [ k \in DOMAIN written
            \cup { x \in DOMAIN after :
                     x \notin DOMAIN before \/ before[x] # after[x] } |->
        IF k \in DOMAIN after /\ (k \notin DOMAIN before \/ before[k] # after[k])
        THEN after[k] ELSE written[k] ]

NoRet ==
    [ name |-> "", silent |-> FALSE, depth |-> 0, calls |-> << >>,
      hist |-> << >>, raised |-> NoErr, thrown |-> NoErr,
      envBefore |-> << >>, envAfter |-> << >>, cargs |-> << >> ]

RetRecord(frame, thrown, envNow) ==
    [ name |-> frame.cmd.cname, silent |-> frame.cmd.silentFail,
      depth |-> Len(stack), calls |-> frame.cmd.calls,
      hist |-> frame.hist, raised |-> frame.raised, thrown |-> thrown,
      envBefore |-> frame.snap, envAfter |-> envNow, cargs |-> frame.cargs ]

NoCompile ==
    [ name |-> "", src |-> 0, idx |-> 0, before |-> Fn(""), after |-> Fn(""),
      err |-> NoErr, attached |-> FALSE, cmd |-> Fn(""),
      regBefore |-> << >> ]

-----------------------------------------------------------------------------
(* run() and the CLI around it. *)

\* The sources run() loads, in order: the core commands, then defs.
LoadList == << 0 >> \o defs

Compile(name, definition) ==
    IF variant = "commands" THEN CompileCommand(name, definition)
    ELSE CompileCommandLC(name, definition)

\* Object.assign( commands, source ) for a compiled source.
RECURSIVE Assign(_, _)
Assign(commands, source) ==
    IF source = << >> THEN commands
    ELSE Assign(Put(commands, Head(source).name, Head(source).def),
                Tail(source))

\* A variant of Registered: a name already registered keeps its command.
RegisteredKeepFirst(commands, name, r, source, last) ==
    IF r.attached /\ name \notin DOMAIN commands
    THEN Put(commands, name, r.cmd) ELSE commands

\* The registry after one compileCommand call: lib/commands.js attaches
\* the function as it compiles it; index.js of lib/load-commands.js merges
\* a source once all of it has compiled.
Registered(commands, name, r, source, last) ==
    IF variant = "commands"
    THEN IF r.attached THEN Put(commands, name, r.cmd) ELSE commands
    ELSE IF r.err = NoErr /\ last THEN Assign(commands, source) ELSE commands

\* One compileCommand call of the loop of compileCommands, within the
\* loop of run() over its sources.
AddCommand ==
    /\ mainPc = "load"
    /\ LET sid    == LoadList[loadIdx.src]
           entry  == srcs[sid][loadIdx.pos]
           r      == Compile(entry.name, entry.def)
           source == [ srcs[sid] EXCEPT ![loadIdx.pos].def = r.def ]
           last   == loadIdx.pos = Len(srcs[sid])
       IN  /\ srcs' = [ srcs EXCEPT ![sid] = source ]
           /\ Commands' = Registered(Commands, entry.name, r, source, last)
           /\ lastCompile' =
                 [ name |-> entry.name, src |-> sid, idx |-> loadIdx.src,
                   before |-> entry.def,
                   after |-> r.def, err |-> r.err, attached |-> r.attached,
                   cmd |-> r.cmd, regBefore |-> Commands ]
           /\ IF r.err # NoErr
              THEN /\ runState' = "rejected"
                   /\ runErr' = r.err
                   /\ mainPc' = "exit"
                   /\ UNCHANGED loadIdx
              ELSE /\ UNCHANGED << runState, runErr >>
                   /\ IF ~last
                      THEN /\ loadIdx' = [ loadIdx EXCEPT !.pos = @ + 1 ]
                           /\ UNCHANGED mainPc
                      ELSE IF loadIdx.src < Len(LoadList)
                      THEN /\ loadIdx' = [ src |-> loadIdx.src + 1, pos |-> 1 ]
                           /\ UNCHANGED mainPc
                      ELSE /\ UNCHANGED loadIdx
                           /\ mainPc' = "run"
    /\ UNCHANGED << child, proc, watch, cli >>
    /\ UNCHANGED << world, coreLog, variant, defs, heap, stack, exc, cmdName, cmdArgs,
                    cmdState, cmdErr, out, exitCode, lastRet >>

\* The command's promise settles.  run() of lib/commands.js has returned
\* by then; run() of lib/load-commands.js awaits it, logs an error and
\* returns.
Settle(err) ==
    /\ cmdState' = IF err = NoErr THEN "resolved" ELSE "rejected"
    /\ cmdErr' = err
    /\ IF variant = "commands"
       THEN UNCHANGED << runState, out >>
       ELSE /\ runState' = "resolved"
            /\ out' = IF err = NoErr THEN out
                      ELSE Append(out, "Executing command: " \o cmdName)
    /\ UNCHANGED runErr

\* runCommand( name, env, args ), called and not awaited by run() of
\* lib/commands.js; the lookup and awaited call of run() of
\* lib/load-commands.js.
RunCommand ==
    /\ mainPc = "run"
    /\ LET command == Lookup(Commands, cmdName) IN
       IF command = Absent
       THEN /\ IF variant = "commands"
               THEN /\ cmdState' = "rejected"
                    /\ cmdErr' = << "Error", "Bad command name: " \o cmdName >>
                    /\ runState' = "resolved"
                    /\ mainPc' = "wait"
                    /\ UNCHANGED runErr
               ELSE /\ runState' = "rejected"
                    /\ runErr' = << "Error", "Bad command name: " \o cmdName >>
                    /\ mainPc' = "exit"
                    /\ UNCHANGED << cmdState, cmdErr >>
            /\ UNCHANGED << heap, stack >>
       ELSE /\ command.fn = "command"
            /\ stack' = << NewFrame(command, 1, cmdArgs) >>
            /\ heap' = HeapAfterEntry(command, 1, cmdArgs)
            /\ cmdState' = "pending"
            /\ runState' = IF variant = "commands" THEN "resolved"
                           ELSE "pending"
            /\ mainPc' = "wait"
            /\ UNCHANGED << cmdErr, runErr >>
    /\ UNCHANGED << child, proc, watch, cli >>
    /\ UNCHANGED << world, coreLog, variant, srcs, defs, Commands, loadIdx, exc, cmdName,
                    cmdArgs, out, exitCode, lastRet, lastCompile >>

-----------------------------------------------------------------------------
(* The steps of a running command. *)

Top == stack[Len(stack)]

SetTop(frame) == [ stack EXCEPT ![Len(stack)] = frame ]

\* The next action of the running command is called: a function action
\* with the scope alone; a named action looks its command up in the
\* registry, evaluates its arguments and calls it.
CallAction ==
    /\ stack # << >>
    /\ exc = NoErr
    /\ ~Top.running
    /\ Top.pc <= Len(Top.cmd.calls)
    /\ LET call == Top.cmd.calls[Top.pc]
       IN  IF call.t = "fn"
           THEN /\ stack' = SetTop([ Started(Top, << >>) EXCEPT
                                       !.running = TRUE,
                                       !.cur = [ fn |-> call.aname,
                                                 cargs |-> << >> ] ])
                /\ UNCHANGED << heap, exc >>
           ELSE IF Lookup(Commands, call.aname) = Absent
           THEN LET err == << "Error", "Command not found: " \o call.aname >>
                IN  /\ stack' = SetTop(Raised(Started(Top, << >>), err))
                    /\ exc' = err
                    /\ UNCHANGED heap
           ELSE LET fn    == Lookup(Commands, call.aname)
                    cargs == CallArgs(call, Top)
                IN  IF fn.fn = "command"
                    THEN /\ Len(stack) < MaxDepth
                         /\ stack' = Append(SetTop(Started(Top, cargs)),
                                            NewFrame(fn, ActionEnv(Top), cargs))
                         /\ heap' = HeapAfterEntry(fn, ActionEnv(Top), cargs)
                         /\ UNCHANGED exc
                    ELSE /\ stack' = SetTop([ Started(Top, cargs) EXCEPT
                                                !.running = TRUE,
                                                !.cur = [ fn |-> fn.fn,
                                                          cargs |-> cargs ] ])
                         /\ UNCHANGED << heap, exc >>
    /\ UNCHANGED << child, proc, watch, cli >>
    /\ UNCHANGED << world, coreLog, variant, srcs, defs, Commands, loadIdx, cmdName, cmdArgs,
                    mainPc, cmdState, cmdErr, runState, runErr, out, exitCode,
                    lastRet, lastCompile >>

\* The promise of the running core command will never be settled, or
\* an exception outside every promise has ended the process.
Stuck == coreLog.last.end # ""

\* The core command the action called ends: it returns or throws, having
\* written what it writes to the object it was given and done what it
\* does to the working copy and the build record; or it stops for good.
CompleteAction ==
    /\ stack # << >>
    /\ mainPc # "exited"
    /\ Top.running
    /\ ~Stuck
    /\ \E g \in WorldOutcomes(Top.cur.fn, heap[ActionEnv(Top)],
                               Top.cur.cargs, world) :
          LET f == [ Top EXCEPT !.written =
                       Writes(heap[ActionEnv(Top)], g.env, @),
                                !.failures = IF g.failed # { }
                                             THEN @ \cup { Top.pc } ELSE @ ]
          IN  /\ heap' = [ heap EXCEPT ![ActionEnv(Top)] = g.env ]
              /\ world' = g.w
              /\ child' = IF g.spawn # NoChild THEN g.spawn
                          ELSE Spawned(Top.cur.fn, heap[ActionEnv(Top)],
                                       Top.cur.cargs)
              /\ coreLog' =
                    IF Top.cur.fn \in WorldNames \/ g.w # world
                    THEN [ prev |-> coreLog.last,
                           last |-> CoreRecord(Top.cur.fn, Top.cur.cargs,
                                      heap[ActionEnv(Top)], world, g,
                                      \E d \in 1..Len(stack) :
                                          stack[d].cmd.silentFail) ]
                    ELSE coreLog
              /\ IF g.end = "hang"
                 THEN /\ stack' = SetTop(f)
                      /\ UNCHANGED << exc, mainPc, exitCode, out >>
                 ELSE IF g.end = "crash"
                 THEN /\ stack' = SetTop(f)
                      /\ mainPc' = "exited"
                      /\ exitCode' = 1
                      /\ out' = Append(out, "SyntaxError: Unexpected token")
                      /\ UNCHANGED exc
                 ELSE IF g.err = NoErr
                 THEN /\ stack' = SetTop(Completed(f))
                      /\ UNCHANGED << exc, mainPc, exitCode, out >>
                 ELSE /\ stack' = SetTop(Raised(f, g.err))
                      /\ exc' = g.err
                      /\ UNCHANGED << mainPc, exitCode, out >>
    /\ UNCHANGED << proc, watch, cli >>
    /\ UNCHANGED << variant, srcs, defs, Commands, loadIdx, cmdName, cmdArgs,
                    cmdState, cmdErr, runState, runErr, lastRet, lastCompile >>

\* The stack and heap once the top invocation has ended: its scope is
\* dropped and the caller's pending action returns or throws.
Popped(err) ==
    LET below == SubSeq(stack, 1, Len(stack) - 1)
    IN  IF below = << >> THEN below
        ELSE [ below EXCEPT ![Len(below)] =
                 IF err = NoErr THEN Completed(@) ELSE Raised(@, err) ]

\* Every action of the command has returned: the command returns.
Return ==
    /\ stack # << >>
    /\ exc = NoErr
    /\ ~Top.running
    /\ Top.pc > Len(Top.cmd.calls)
    /\ stack' = Popped(NoErr)
    /\ heap' = SubSeq(heap, 1, Top.scope - 1)
    /\ lastRet' = RetRecord(Top, NoErr, heap[Top.env])
    /\ IF Len(stack) = 1
       THEN Settle(NoErr)
       ELSE UNCHANGED << cmdState, cmdErr, runState, runErr, out >>
    /\ UNCHANGED << child, proc, watch, cli >>
    /\ UNCHANGED << world, coreLog, variant, srcs, defs, Commands, loadIdx, exc, cmdName,
                    cmdArgs, mainPc, exitCode, lastCompile >>

\* An action of the command has thrown: the command rethrows the error to
\* its caller, or with silentFail returns as if it had completed.
Unwind ==
    /\ stack # << >>
    /\ exc # NoErr
    /\ LET thrown == IF Rethrow(Top.cmd) THEN exc ELSE NoErr
       IN  /\ stack' = Popped(thrown)
           /\ heap' = SubSeq(heap, 1, Top.scope - 1)
           /\ lastRet' = RetRecord(Top, thrown, heap[Top.env])
           /\ exc' = IF Len(stack) = 1 THEN NoErr ELSE thrown
           /\ IF Len(stack) = 1
              THEN Settle(thrown)
              ELSE UNCHANGED << cmdState, cmdErr, runState, runErr, out >>
    /\ UNCHANGED << child, proc, watch, cli >>
    /\ UNCHANGED << world, coreLog, variant, srcs, defs, Commands, loadIdx, cmdName, cmdArgs,
                    mainPc, exitCode, lastCompile >>

\* run().then( () => console.log('Done') )
PrintDone ==
    /\ runState = "resolved"
    /\ mainPc # "exited"
    /\ \A i \in 1..Len(out) : out[i] # "Done"
    /\ out' = Append(out, "Done")
    /\ UNCHANGED << child, proc, watch, cli >>
    /\ UNCHANGED << world, coreLog, variant, srcs, defs, Commands, loadIdx, heap, stack, exc,
                    cmdName, cmdArgs, mainPc, cmdState, cmdErr, runState,
                    runErr, exitCode, lastRet, lastCompile >>

\* A promise rejected with no handler: run()'s in bin/locomote, which
\* attaches none, and the promise of the runCommand call run() does not
\* await.  bin/locomote-build catches run()'s rejection and prints it.
Unhandled ==
    IF variant = "commands"
    THEN runState = "rejected" \/ cmdState = "rejected"
    ELSE FALSE

\* Nothing is left to run, a promise that is never settled keeps nothing
\* running, and the process exits.  With an unhandled
\* rejection node exits 0 after a warning, or 1, depending on its version.
Exit ==
    /\ mainPc \in { "wait", "exit" }
    /\ \/ stack = << >> /\ runState # "pending"
       \/ Stuck
    /\ runState = "resolved" => \E i \in 1..Len(out) : out[i] = "Done"
    /\ \E code \in (IF Unhandled THEN { 0, 1 } ELSE { 0 }) : exitCode' = code
    /\ mainPc' = "exited"
    /\ out' = IF runState = "rejected" /\ variant # "commands"
              THEN Append(out, runErr[2]) ELSE out
    /\ UNCHANGED << child, proc, watch, cli >>
    /\ UNCHANGED << world, coreLog, variant, srcs, defs, Commands, loadIdx, heap, stack, exc,
                    cmdName, cmdArgs, cmdState, cmdErr, runState, runErr,
                    lastRet, lastCompile >>

-----------------------------------------------------------------------------
(* The specifications. *)

\* The env object the CLI builds from its configuration.
Envs == { [ workspace |-> "." ], [ workspace |-> ".", target |-> "pub" ] }

\* The command names and arguments run() is called with.
CliNames ==
    { "cli:build", "cli:retry", "cli:deploy", "cli:publish", "cli:both",
      "cli:nope", "build" }

CliArgs == { << >>, << "docs" >>, << "docs", "{workspace}" >> }

RECURSIVE SeqsUpTo(_, _)
SeqsUpTo(S, n) ==
    IF n = 0 THEN { << >> }
    ELSE LET shorter == SeqsUpTo(S, n - 1)
         IN  shorter \cup { Append(q, x) : q \in shorter, x \in S }

\* The branches of the site's remote: master alone, or test as well.
Remotes ==
    { [ b \in { "master" } |-> "s0" ],
      [ b \in { "master", "test" } |-> IF b = "master" THEN "s0" ELSE "t0" ] }

\* The record file: missing, unreadable, not JSON, or a record.
Records ==
    { [ state |-> "missing", map |-> << >> ],
      [ state |-> "unreadable", map |-> << >> ],
      [ state |-> "malformed", map |-> << >> ],
      [ state |-> "ok", map |-> [ k \in { "other#master" } |-> "b0" ] ],
      [ state |-> "ok",
        map |-> [ k \in { "other#master", "site#master" } |->
                    IF k = "site#master" THEN "s0" ELSE "b0" ] ] }

\* What can be at the working copy's path: nothing, a plain directory,
\* or a working copy of the site's remote, of another remote or of none,
\* on master, on test, or on a test branch that has no commit yet.
Copies(remote) ==
    { [ NoWorld EXCEPT !.dir = d ] : d \in { "none", "plain" } }
    \cup { [ NoWorld EXCEPT !.dir = "repo", !.origin = SiteOrigin,
                            !.tracking = remote, !.head = h[1],
                            !.commit = h[2], !.tracked = h[2] # "",
                            !.dirty = d ] :
             h \in { << "master", "s0" >>, << "test", "" >> }
                     \cup (IF "test" \in DOMAIN remote
                           THEN { << "test", "t0" >> } ELSE { }),
             d \in BOOLEAN }
    \cup { [ NoWorld EXCEPT !.dir = "repo", !.origin = o,
                            !.tracking = IF o = "" THEN << >>
                                         ELSE [ b \in { "master" } |-> "b0" ],
                            !.head = "master", !.commit = "b0",
                            !.tracked = TRUE ] :
             o \in { OtherOrigin, "" } }

Worlds ==
    UNION { { [ c EXCEPT !.remote = rm, !.record = rc ] :
                c \in Copies(rm), rc \in Records } : rm \in Remotes }

InitWith(v) ==
    /\ variant = v
    /\ srcs = [ i \in 0..Len(Sources) |->
                  IF i = 0 THEN CoreCommandsOf(v) ELSE Sources[i] ]
    /\ defs \in SeqsUpTo(SourceIds, MaxDefs)
    /\ Commands = << >>
    /\ loadIdx = [ src |-> 1, pos |-> 1 ]
    /\ heap \in { << e >> : e \in Envs }
    /\ stack = << >>
    /\ exc = NoErr
    /\ cmdName \in CliNames
    /\ cmdArgs \in CliArgs
    /\ mainPc = "load"
    /\ cmdState = "none"
    /\ cmdErr = NoErr
    /\ runState = "pending"
    /\ runErr = NoErr
    /\ out = << >>
    /\ exitCode = -1
    /\ lastRet = NoRet
    /\ lastCompile = NoCompile
    /\ world = NoWorld
    /\ coreLog = [ prev |-> NoCore, last |-> NoCore ]
    /\ child = NoChild
    /\ proc = NoProc
    /\ watch = NoWatch
    /\ cli = NoCli

\* A run of one of the site's commands, with a working copy, a remote
\* and a build record in any of the states they can be found in.
InitGitWith(v) ==
    /\ variant = v
    /\ srcs = [ i \in { 0, GitSource } |->
                  IF i = 0 THEN CoreCommandsOf(v) ELSE GitDefs ]
    /\ defs = << GitSource >>
    /\ Commands = << >>
    /\ loadIdx = [ src |-> 1, pos |-> 1 ]
    /\ heap = << [ workspace |-> "." ] >>
    /\ stack = << >>
    /\ exc = NoErr
    /\ cmdName \in (IF v = "commands" THEN GitCliNames ELSE { "cli:push" })
    /\ cmdArgs = << >>
    /\ mainPc = "load"
    /\ cmdState = "none"
    /\ cmdErr = NoErr
    /\ runState = "pending"
    /\ runErr = NoErr
    /\ out = << >>
    /\ exitCode = -1
    /\ lastRet = NoRet
    /\ lastCompile = NoCompile
    /\ world \in Worlds
    /\ coreLog = [ prev |-> NoCore, last |-> NoCore ]
    /\ child = NoChild
    /\ proc = NoProc
    /\ watch = NoWatch
    /\ cli = NoCli

Init == InitWith("commands")

InitGit == InitGitWith("commands")

InitGitLC == InitGitWith("load-commands")

InitLC == InitWith("load-commands")

Next ==
    \/ AddCommand
    \/ RunCommand
    \/ CallAction
    \/ CompleteAction
    \/ Return
    \/ Unwind
    \/ PrintDone
    \/ Exit

\* lib/index.js with lib/commands.js, run from bin/locomote.
Spec == Init /\ [][Next]_vars

\* lib/index.js with lib/load-commands.js, run from bin/locomote-build.
SpecLC == InitLC /\ [][Next]_vars

\* The git and build-record core commands, run from bin/locomote.
SpecGit == InitGit /\ [][Next]_vars

\* git-push of lib/core-commands.js, run from bin/locomote-build.
SpecGitLC == InitGitLC /\ [][Next]_vars

-----------------------------------------------------------------------------
(* bin/locomote: the command line, conf/std-build.json and the dev
   server's build-conf.js. *)

\* conf/std-build.json, after heckle, webpack and build.
StdBuildCli ==
    << [ name |-> "pwa-build",
         def  |-> Obj(<< "source" >>, << >>, NoAction,
                      Arr(<< StrAction(<< "npx", WS, "make-pwa-images", WS,
                                          "{source}", WS, "{source}" >>),
                             StrAction(<< "npx", WS, "make-sw", WS,
                                          "{source}", WS, "{source}" >>),
                             StrAction(<< "npx", WS, "make-html-header", WS,
                                          "{source}", WS, "{source}", WS,
                                          "-o", WS,
                                          "_includes/locomote-header.html" >>),
                             StrAction(<< "npx", WS, "make-web-manifest", WS,
                                          "{source}", WS, "{source}" >>) >>),
                      FALSE) ],
       [ name |-> "build-from-git",
         def  |-> Obj(<< "origin", "source", "target" >>, << >>, NoAction,
                      Arr(<< StrAction(<< "git-clone", WS, "{origin}", WS,
                                          "{source}" >>),
                             StrAction(<< "git-clone", WS, "{origin}", WS,
                                          "{target}" >>),
                             StrAction(<< "npm-install", WS, "{source}", WS,
                                          "{origin}" >>),
                             StrAction(<< "build", WS, "{source}", WS,
                                          "{target}" >>),
                             StrAction(<< "write-build-record", WS,
                                          "{source}", WS, "{target}" >>),
                             StrAction(<< "git-push", WS, "{target}" >>) >>),
                      FALSE) ],
       [ name |-> "cli:pwa-build",
         def  |-> Obj(<< "source" >>, << << "source", "." >> >>,
                      StrAction(<< "pwa-build", WS, "{source}" >>),
                      Undef, FALSE) ],
       [ name |-> "cli:serve",
         def  |-> Obj(<< "source", "target" >>,
                      << << "source", "." >>, << "target", "_site" >> >>,
                      StrAction(<< "start-server", WS, "{source}", WS,
                                   "{target}" >>),
                      Undef, FALSE) ],
       [ name |-> "cli:build",
         def  |-> Obj(<< "origin", "source", "target" >>,
                      << << "origin", "." >>, << "source", "master" >>,
                         << "target", "test" >> >>,
                      NoAction,
                      Arr(<< StrAction(<< "mktemp" >>),
                             StrAction(<< "build-from-git", WS, "{origin}",
                                          WS, "{source}", WS, "{target}" >>),
                             StrAction(<< "rmdir", WS, "." >>) >>),
                      FALSE) ] >>

\* lib/server/build-conf.js
BuildConf ==
    << [ name |-> "ds:webpack", def |-> Fn("ds:webpack") ],
       [ name |-> "ds:heckle", def |-> Fn("ds:heckle") ],
       [ name |-> "ds:file-api", def |-> Fn("ds:file-api") ],
       [ name |-> "ds:static-files", def |-> Fn("ds:static-files") ],
       [ name |-> "ds:configure",
         def  |-> Obj(<< "source", "target" >>,
                      << << "source", "." >>, << "target", "_site" >> >>,
                      NoAction,
                      Arr(<< StrAction(<< "ds:webpack", WS, "{source}", WS,
                                          "{target}" >>),
                             StrAction(<< "ds:file-api", WS, "{target}" >>),
                             StrAction(<< "ds:heckle", WS, "{source}", WS,
                                          "{target}" >>),
                             StrAction(<< "ds:static-files", WS,
                                          "{target}" >>) >>),
                      FALSE) ] >>

\* A project's command file (options.commands) that replaces
\* build-from-git by a build that neither clones nor pushes.
ProjectDefs ==
    << [ name |-> "build-from-git",
         def  |-> Obj(<< "origin", "source", "target" >>, << >>,
                      StrAction(<< "rem", WS, "{origin}", WS, "{source}", WS,
                                   "{target}" >>),
                      Undef, FALSE) ] >>

CliSources == << StdBuild \o StdBuildCli, BuildConf, ProjectDefs >>

\* The command line as klopptions hands it over: the command name as its
\* parts between colons, the positional arguments, the -E<name> values
\* under their option names (spelt out), the server switch, and whether
\* a command file was named.
CliCommands ==
    { << "build" >>, << "serve" >>, << "pwa-build" >>, << "cli", "build" >>,
      << "ds", "configure" >> }

CliPositional ==
    { << >>, << "docs" >>, << "docs", "pub" >>, << "docs", "pub", "live" >>,
      << SiteOrigin >>, << UrlOrigin >> }

CliAssignments ==
    { << >>,
      << [ name |-> << "E", "m", "o", "d", "e" >>, value |-> "fast" ] >> }

OtherOptionNames ==
    { << "c", "o", "m", "m", "a", "n", "d" >>, << "a", "r", "g", "s" >>,
      << "c", "o", "n", "f", "i", "g" >>, << "s", "e", "r", "v", "e", "r" >> }

CliInputs ==
    [ command : CliCommands, args : CliPositional, E : CliAssignments,
      server : BOOLEAN, commands : BOOLEAN ]

\* name.substring( start )
Substring(chars, start) == SubSeq(chars, start + 1, Len(chars))

\* name.startsWith('E')
StartsWithE(chars) == chars # << >> /\ chars[1] = "E"

\* The build environment: config.env, the -E assignments of the command
\* line and the server configuration.
CliEnv(o) ==
    LET names == { n \in OtherOptionNames
                         \cup { o.E[i].name : i \in 1..Len(o.E) } :
                     StartsWithE(n) }
        val(n) == o.E[CHOOSE i \in 1..Len(o.E) : o.E[i].name = n].value
    IN  [ k \in { "workspace", "server" }
                  \cup { Concat(Substring(n, 0)) : n \in names } |->
            IF k = "workspace" THEN "."
            ELSE IF k = "server" THEN "[object Object]"
            ELSE val(CHOOSE n \in names : Concat(Substring(n, 0)) = k) ]

RECURSIVE JoinColon(_)
\* The command name as one string.
JoinColon(parts) ==
    IF Len(parts) = 1 THEN parts[1]
    ELSE parts[1] \o ":" \o JoinColon(Tail(parts))

\* The name of the command to run: 'cli:' is put before a name that has
\* no colon.
CliCommand(parts) ==
    IF Len(parts) = 1 THEN "cli:" \o JoinColon(parts) ELSE JoinColon(parts)

\* The definitions run() is given: std-build.json, build-conf.js unless
\* the server is disabled, the command file named.  (config.commands,
\* empty by default, adds nothing.)
CliDefsOf(o) ==
    << 1 >> \o (IF o.server THEN << 2 >> ELSE << >>)
            \o (IF o.commands THEN << 3 >> ELSE << >>)

\* What a build finds: no working copy yet, the remote with or without
\* the target branch, and in the target branch a build record or none.
CliWorlds ==
    UNION { { [ NoWorld EXCEPT !.remote = rm, !.record = rc ] :
                rc \in { r \in Records :
                           \/ r.state = "missing"
                           \/ /\ "test" \in DOMAIN rm
                              /\ r.state = "ok"
                              /\ DOMAIN r.map = { "other#master" } } } :
            rm \in Remotes }

InitCli ==
    /\ variant = "commands"
    /\ srcs = [ i \in 0..Len(CliSources) |->
                  IF i = 0 THEN CoreCommands ELSE CliSources[i] ]
    /\ \E o \in CliInputs :
          /\ defs = CliDefsOf(o)
          /\ heap = << CliEnv(o) >>
          /\ cmdName = CliCommand(o.command)
          /\ cmdArgs = o.args
          /\ cli = o
    /\ Commands = << >>
    /\ loadIdx = [ src |-> 1, pos |-> 1 ]
    /\ stack = << >>
    /\ exc = NoErr
    /\ mainPc = "load"
    /\ cmdState = "none"
    /\ cmdErr = NoErr
    /\ runState = "pending"
    /\ runErr = NoErr
    /\ out = << >>
    /\ exitCode = -1
    /\ lastRet = NoRet
    /\ lastCompile = NoCompile
    /\ world \in CliWorlds
    /\ coreLog = [ prev |-> NoCore, last |-> NoCore ]
    /\ child = NoChild
    /\ proc = NoProc
    /\ watch = NoWatch

\* bin/locomote with the commands of conf/std-build.json.
SpecCli == InitCli /\ [][Next]_vars

-----------------------------------------------------------------------------
(* The core commands of the earlier core-commands.js files. *)

\* A command file written for them: list the workspace twice, with run
\* and with exec; work in a temporary directory.
OldDefs ==
    << [ name |-> "cli:list",
         def  |-> Obj(<< "dir" >>, << << "dir", "{workspace}" >> >>, NoAction,
                      Arr(<< StrAction(<< "run", WS, "ls", WS, "{dir}" >>),
                             StrAction(<< "exec", WS, "ls", WS,
                                          "{dir}" >>) >>),
                      FALSE) ],
       [ name |-> "cli:scratch",
         def  |-> Obj(<< >>, << >>, NoAction,
                      Arr(<< StrAction(<< "temp-dir", WS, "tmp" >>),
                             StrAction(<< "exec", WS, "ls", WS,
                                          "{tmp}" >>) >>),
                      FALSE) ] >>

OldCliNames == { "cli:list", "cli:scratch" }

InitOld ==
    /\ variant = "load-commands"
    /\ srcs = [ i \in { 0, 1 } |->
                  IF i = 0 THEN CoreCommandsOf("load-commands") ELSE OldDefs ]
    /\ defs = << 1 >>
    /\ Commands = << >>
    /\ loadIdx = [ src |-> 1, pos |-> 1 ]
    /\ heap \in { << e >> : e \in Envs }
    /\ stack = << >>
    /\ exc = NoErr
    /\ cmdName \in OldCliNames
    /\ cmdArgs \in CliArgs
    /\ mainPc = "load"
    /\ cmdState = "none"
    /\ cmdErr = NoErr
    /\ runState = "pending"
    /\ runErr = NoErr
    /\ out = << >>
    /\ exitCode = -1
    /\ lastRet = NoRet
    /\ lastCompile = NoCompile
    /\ world = NoWorld
    /\ coreLog = [ prev |-> NoCore, last |-> NoCore ]
    /\ child = NoChild
    /\ proc = NoProc
    /\ watch = NoWatch
    /\ cli = NoCli

\* lib/index.js with lib/load-commands.js and the earlier core commands.
SpecOld == InitOld /\ [][Next]_vars

-----------------------------------------------------------------------------
(* A child process under support.exec. *)

\* run() has not been called.
NoRun ==
    /\ variant = "commands"
    /\ srcs = [ i \in { 0 } |-> CoreCommands ]
    /\ defs = << >>
    /\ Commands = << >>
    /\ loadIdx = [ src |-> 1, pos |-> 1 ]
    /\ heap = << [ workspace |-> "." ] >>
    /\ stack = << >>
    /\ exc = NoErr
    /\ cmdName = ""
    /\ cmdArgs = << >>
    /\ mainPc = "load"
    /\ cmdState = "none"
    /\ cmdErr = NoErr
    /\ runState = "pending"
    /\ runErr = NoErr
    /\ out = << >>
    /\ exitCode = -1
    /\ lastRet = NoRet
    /\ lastCompile = NoCompile
    /\ world = NoWorld
    /\ coreLog = [ prev |-> NoCore, last |-> NoCore ]
    /\ child = NoChild
    /\ cli = NoCli

Engine == << variant, srcs, defs, Commands, loadIdx, heap, stack, exc, cmdName,
             cmdArgs, mainPc, cmdState, cmdErr, runState, runErr, out,
             exitCode, lastRet, lastCompile, world, coreLog, child, cli >>

\* exec( cwd, env, cmd, args, out, err ) has spawned a process that will
\* write any text on stdout and on stderr.
InitExec ==
    /\ NoRun
    /\ watch = NoWatch
    /\ \E o \in SeqsUpTo({ "a", "b", NL }, MaxOut),
          e \in SeqsUpTo({ "e", NL }, MaxErrOut) :
          proc = [ NoProc EXCEPT !.st = "running",
                                 !.output = [ s \in Streams |->
                                     IF s = "stdout" THEN o ELSE e ] ]

ProcData ==
    /\ proc.st = "running"
    /\ \E s \in Streams, n \in 1..MaxChunk :
          /\ proc.sent[s] + n <= Len(proc.output[s])
          /\ proc' = OnData(proc, s, n)
    /\ UNCHANGED << Engine, watch >>

\* The process has written all of its output and exits.
ProcClose ==
    /\ proc.st \in { "running", "failed" }
    /\ \A s \in Streams : proc.sent[s] = Len(proc.output[s])
    /\ \E code \in ExitCodes : proc' = OnClose(proc, code)
    /\ UNCHANGED << Engine, watch >>

\* The process could not be spawned.
ProcError ==
    /\ proc.st = "running"
    /\ \A s \in Streams : proc.sent[s] = 0
    /\ proc' = OnError(proc)
    /\ UNCHANGED << Engine, watch >>

NextExec ==
    \/ ProcData
    \/ ProcClose
    \/ ProcError

SpecExec == InitExec /\ [][NextExec]_vars

-----------------------------------------------------------------------------
(* A watcher of the dev server. *)

InitWatch ==
    /\ NoRun
    /\ proc = NoProc
    /\ watch \in { [ NoWatch EXCEPT !.kind = k ] : k \in { "files", "source" } }

\* chokidar reports an event.
WatchEvent ==
    /\ Len(watch.happened) < MaxEvents
    /\ \E type \in EventTypes, file \in WatchedFiles :
          watch' = IF watch.kind = "files" THEN OnAll(watch, type, file)
                   ELSE OnChange(watch, type, file)
    /\ UNCHANGED << Engine, proc >>

\* The interval timer fires.
WatchTick ==
    /\ watch.ticks < MaxTicks
    /\ watch' = IF watch.kind = "files" THEN TickFiles(watch)
                ELSE TickSource(watch)
    /\ UNCHANGED << Engine, proc >>

\* addFiles, removeFiles or build finishes.
WatchDone ==
    /\ \E i \in 1..Len(watch.running) :
          \/ watch' = Continued(watch, i)
          \/ /\ watch.kind = "files"
             /\ watch' = Rejected(watch, i)
    /\ UNCHANGED << Engine, proc >>

NextWatch ==
    \/ WatchEvent
    \/ WatchTick
    \/ WatchDone

SpecWatch == InitWatch /\ [][NextWatch]_vars

-----------------------------------------------------------------------------
(* Properties of the engine. *)

\* Every invocation there is a record of: those on the stack and the one
\* that returned last.
Invocations ==
    { [ silent |-> stack[d].cmd.silentFail, calls |-> stack[d].cmd.calls,
        hist |-> stack[d].hist, returned |-> FALSE, thrown |-> NoErr,
        depth |-> d ] : d \in 1..Len(stack) }
    \cup (IF lastRet.name = "" THEN { }
          ELSE { [ silent |-> lastRet.silent, calls |-> lastRet.calls,
                   hist |-> lastRet.hist, returned |-> TRUE,
                   thrown |-> lastRet.thrown, depth |-> lastRet.depth ] })

\* Action 1 starts first; an action ends only after it started; action
\* i+1 starts only after action i has returned; nothing follows a raise.
InOrder(hist) ==
    \A j \in 1..Len(hist) :
        IF hist[j].e = "start"
        THEN IF j = 1 THEN hist[j].i = 1
             ELSE hist[j - 1].e = "done" /\ hist[j].i = hist[j - 1].i + 1
        ELSE j > 1 /\ hist[j - 1].e = "start" /\ hist[j - 1].i = hist[j].i

RaisedAt(hist, k) == \E j \in 1..Len(hist) : hist[j].e = "raise" /\ hist[j].i = k

\* C1: in a command without silentFail the actions run one at a time in
\* declared order; when action k raises, no later action is started and
\* the invocation fails with exactly the error action k raised.
C1_InOrderFailFast ==
    \A v \in Invocations :
        ~v.silent =>
            /\ InOrder(v.hist)
            /\ \A j \in 1..Len(v.hist) :
                  v.hist[j].e = "raise" =>
                      /\ j = Len(v.hist)
                      /\ v.returned => v.thrown = v.hist[j].err
                      /\ (v.returned /\ v.depth = 1) =>
                            cmdState = "rejected" /\ cmdErr = v.hist[j].err
            /\ (v.returned /\ v.thrown = NoErr) =>
                  /\ Len(v.hist) = 2 * Len(v.calls)
                  /\ \A j \in 1..Len(v.hist) : v.hist[j].e # "raise"

\* A command of several actions, without silentFail, has returned after
\* its first action raised.
C1_Witness ==
    /\ lastRet.name = "build"
    /\ ~lastRet.silent
    /\ Len(lastRet.calls) = 2
    /\ RaisedAt(lastRet.hist, 1)
    /\ lastRet.thrown # NoErr

\* C2: when an action of a command raises, the invocation completes with
\* no error for its caller if the command has silentFail, and otherwise
\* hands the caller the action's error unchanged.
C2_SilentFail ==
    (lastRet.name # "" /\ lastRet.raised # NoErr) =>
        IF lastRet.silent
        THEN /\ lastRet.thrown = NoErr
             /\ lastRet.depth = 1 => cmdState = "resolved" /\ cmdErr = NoErr
        ELSE /\ lastRet.thrown = lastRet.raised
             /\ lastRet.depth = 1 =>
                   cmdState = "rejected" /\ cmdErr = lastRet.raised

\* A top-level command with silentFail has returned after its action
\* raised.
C2_Witness ==
    /\ lastRet.name = "cli:retry"
    /\ lastRet.silent
    /\ lastRet.depth = 1
    /\ lastRet.raised # NoErr
    /\ cmdState = "resolved"

\* C3: when an action's argument templates are evaluated, every placeholder
\* naming a variable that an earlier action of the same invocation wrote
\* resolves to the value written last.
C3_WritesVisible ==
    \A v \in Invocations :
        \A j \in 1..Len(v.hist) :
            LET ev   == v.hist[j]
                call == v.calls[ev.i]
            IN  (ev.e = "start" /\ call.t = "call") =>
                    \A a \in 1..Len(ev.cargs) :
                        \A p \in Placeholders :
                            (call.aargs[a] = p[1] /\ p[2] \in DOMAIN ev.w) =>
                                ev.cargs[a] = ev.w[p[2]]

\* The third action of cli:build was called with the directory that its
\* first action, mktemp, wrote to cwd.
C3_Witness ==
    /\ stack # << >>
    /\ stack[1].cmd.cname = "cli:build"
    /\ stack[1].pc = 3
    /\ stack[1].running
    /\ "cwd" \in DOMAIN stack[1].written
    /\ stack[1].cur.cargs = << "ls", stack[1].written["cwd"] >>
    /\ "cwd" \notin DOMAIN heap[1]

\* C4: an invocation leaves the scope object it was called with as it
\* found it, no key changed and none added, while it runs, at whatever
\* depth, and when it has returned.
C4_CallerScopeUntouched ==
    /\ lastRet.name # "" => lastRet.envAfter = lastRet.envBefore
    /\ \A d \in 1..Len(stack) : heap[stack[d].env] = stack[d].snap

\* The run() call learns of the error e: its promise rejects with e, or
\* its catch block logs it.
RunObserved(e) ==
    \/ runState = "rejected" /\ runErr = e
    \/ \E i \in 1..Len(out) : out[i] = "Executing command: " \o cmdName

\* C5: a command with silentFail swallows the error raised below it and
\* returns normally; an error that no silentFail command swallowed leaves
\* the top-level command and reaches run(), the top-level caller.
C5_SuppressionScoped ==
    /\ (lastRet.name # "" /\ lastRet.silent) => lastRet.thrown = NoErr
    /\ (lastRet.name # "" /\ ~lastRet.silent) => lastRet.thrown = lastRet.raised
    /\ (lastRet.depth = 1 /\ lastRet.thrown # NoErr) =>
          /\ cmdState = "rejected"
          /\ cmdErr = lastRet.thrown
          /\ RunObserved(lastRet.thrown)

\* C6: when the top-level command raises, the run is never reported as
\* "Done" and, once the process has exited, the exit code is not zero.
C6_FailureEndsRun ==
    (lastRet.depth = 1 /\ lastRet.thrown # NoErr) =>
        /\ \A i \in 1..Len(out) : out[i] # "Done"
        /\ mainPc = "exited" => exitCode # 0

NotFoundErr(aname) == << "Error", "Command not found: " \o aname >>

BadNameErr(name) == << "Error", "Bad command name: " \o name >>

IsNotFound(err) == \E n \in Names : err = NotFoundErr(n)

\* A definition compileCommand accepts.
WellFormed(definition) ==
    /\ definition.actions.t # "other"
    /\ ActionsWithAction(definition) # << >>
    /\ \A i \in 1..Len(ActionsWithAction(definition)) :
          ActionsWithAction(definition)[i].t \in { "fn", "str", "arr" }

\* Compiling a well-formed definition succeeds whatever the registry holds.
CompileIgnoresRegistry ==
    (lastCompile.name # "" /\ lastCompile.before.fn = ""
        /\ WellFormed(lastCompile.before)) =>
            lastCompile.err = NoErr /\ lastCompile.attached

\* What a named action is running is what the registry holds under that
\* name.
CallsRegistered ==
    \A d \in 1..Len(stack) :
        LET f == stack[d]
        IN  (f.pc <= Len(f.cmd.calls) /\ f.cmd.calls[f.pc].t = "call") =>
                LET aname == f.cmd.calls[f.pc].aname
                IN  /\ d < Len(stack) =>
                          /\ aname \in DOMAIN Commands
                          /\ stack[d + 1].cmd = Commands[aname]
                    /\ f.running =>
                          /\ aname \in DOMAIN Commands
                          /\ f.cur.fn = Commands[aname].fn

\* An action naming a command the registry lacks raises "Command not
\* found" as it is called, with nothing run for it; runCommand on a name
\* the registry lacks fails with "Bad command name" and runs nothing.
AbsentRaises ==
    /\ \A d \in 1..Len(stack) :
          LET f == stack[d]
          IN  (/\ f.pc <= Len(f.cmd.calls)
               /\ f.cmd.calls[f.pc].t = "call"
               /\ f.cmd.calls[f.pc].aname \notin DOMAIN Commands
               /\ f.hist # << >>
               /\ f.hist[Len(f.hist)].i = f.pc) =>
                  /\ d = Len(stack)
                  /\ ~f.running
                  /\ f.hist[Len(f.hist)].e = "raise"
                  /\ f.hist[Len(f.hist)].err
                        = NotFoundErr(f.cmd.calls[f.pc].aname)
                  /\ exc = NotFoundErr(f.cmd.calls[f.pc].aname)
    /\ (/\ mainPc \in { "wait", "exited" }
        /\ lastCompile.err = NoErr
        /\ cmdName \notin DOMAIN Commands) =>
          /\ cmdState = "rejected"
          /\ cmdErr = BadNameErr(cmdName)
          /\ stack = << >>
          /\ lastRet = NoRet

\* C7 as stated: names are resolved at call time, and invoking a command
\* whose action names an absent command fails with the not-found error.
C7_AbsentAlwaysFails ==
    /\ CompileIgnoresRegistry
    /\ CallsRegistered
    /\ AbsentRaises
    /\ (lastRet.name # "" /\ IsNotFound(lastRet.raised)) =>
          lastRet.thrown = lastRet.raised

\* C7 as amended: names are resolved at call time; an action naming an
\* absent command raises the not-found error before anything of that
\* command runs, and the invocation fails with that error unless the
\* invoking command has silentFail, which then swallows it.
C7_CallTimeResolution ==
    /\ CompileIgnoresRegistry
    /\ CallsRegistered
    /\ AbsentRaises
    /\ (lastRet.name # "" /\ IsNotFound(lastRet.raised)) =>
          lastRet.thrown = (IF lastRet.silent THEN NoErr ELSE lastRet.raised)

\* cli:deploy was compiled while release was not registered, release was
\* registered by a later source, and cli:deploy's action is running it.
C7_Witness ==
    /\ defs = << 2, 3 >>
    /\ Len(stack) = 2
    /\ stack[1].cmd.cname = "cli:deploy"
    /\ stack[2].cmd.cname = "release"
    /\ stack[2].cmd = Commands["release"]

\* run() has loaded every source.
Loaded == mainPc \in { "run", "wait", "exited" } /\ lastCompile.err = NoErr

\* The places of LoadList whose source defines name.
Defining(name) ==
    { p \in 1..Len(LoadList) :
        \E i \in 1..Len(srcs[LoadList[p]]) :
            srcs[LoadList[p]][i].name = name }

Max(S) == CHOOSE x \in S : \A y \in S : y <= x

DefinitionOf(name, sid) ==
    LET i == Max({ j \in 1..Len(srcs[sid]) : srcs[sid][j].name = name })
    IN  srcs[sid][i].def

\* The actions a compiled definition object was compiled from.
ActionsNow(definition) ==
    IF definition.actions.t = "array" THEN definition.actions.v
    ELSE ActionsWithAction(definition)

\* The command is the one compileCommand makes of the definition.
MadeFrom(cmd, name, definition) ==
    IF definition.fn # "" THEN cmd = definition
    ELSE /\ cmd.fn = "command"
         /\ cmd.cname = name
         /\ cmd.args = definition.args
         /\ cmd.vars = definition.vars
         /\ cmd.silentFail = definition.silentFail
         /\ cmd.calls = [ i \in 1..Len(ActionsNow(definition)) |->
                            CompileAction(ActionsNow(definition)[i]) ]

\* C8: once run() has loaded the core commands and then each source of
\* defs in order, a name is registered exactly if some source defines
\* it, and it maps to the definition of the last source that defines it.
C8_RegistryMerge ==
    Loaded =>
        \A n \in Names :
            IF Defining(n) = { } THEN n \notin DOMAIN Commands
            ELSE /\ n \in DOMAIN Commands
                 /\ MadeFrom(Commands[n], n,
                             DefinitionOf(n, LoadList[Max(Defining(n))]))

\* conf/std-build.json then the second command file: webpack is the
\* second file's, heckle is still registered.
C8_Witness ==
    /\ mainPc = "run"
    /\ defs = << 1, 3 >>
    /\ ~Commands["webpack"].silentFail
    /\ Commands["heckle"].cname = "heckle"
    /\ Commands["exec"] = Fn("exec")

\* The definition has neither a truthy "action" nor any entry in "actions".
NoActionAtAll(definition) ==
    /\ ~Truthy(definition.action)
    /\ definition.actions.t # "other"
    /\ definition.actions.v = << >>

\* C9: compileCommand throws, with nothing attached to the registry and
\* nothing run, when "actions" is not an array or the definition has no
\* action at all; a single "action" is compiled as the last of the actions.
C9_CompileFailsEarly ==
    LET c == lastCompile
    IN  (c.name # "" /\ c.before.fn = "") =>
            /\ (c.before.actions.t = "other" \/ NoActionAtAll(c.before)) =>
                  /\ c.err # NoErr
                  /\ ~c.attached
                  /\ Commands = c.regBefore
                  /\ mainPc \in { "exit", "exited" }
                  /\ cmdState = "none"
                  /\ stack = << >>
            /\ (c.err = NoErr /\ Truthy(c.before.action)) =>
                  LET all == Append(c.before.actions.v, c.before.action)
                  IN  c.cmd.calls =
                        [ i \in 1..Len(all) |-> CompileAction(all[i]) ]

\* A definition whose "actions" is not an array failed to compile, and
\* the command an earlier source registered under its name is still there.
C9_Witness ==
    /\ lastCompile.err # NoErr
    /\ lastCompile.before.actions.t = "other"
    /\ lastCompile.name \in DOMAIN Commands
    /\ mainPc = "exited"

\* C10: compileCommand leaves the definition object as it was, and
\* compiling the same source again yields the same command.
C10_CompileIdempotent ==
    LET c == lastCompile
    IN  (c.name # "" /\ c.err = NoErr) =>
            /\ c.after = c.before
            /\ (/\ c.err = NoErr
                /\ c.idx > 1
                /\ LoadList[c.idx - 1] = c.src
                /\ c.name \in DOMAIN c.regBefore) =>
                   c.cmd = c.regBefore[c.name]

-----------------------------------------------------------------------------
(* Properties of the scope derivation. *)

\* The invocations that have just been entered: no action called yet.
Entered == { d \in 1..Len(stack) : stack[d].hist = << >> }

\* The positional names of the frame's command that its call binds.
BoundArgs(f) ==
    { f.cmd.args[i] : i \in { j \in 1..Len(f.cmd.args) :
                                j <= Len(f.cargs) /\ f.cargs[j] # "" } }

LocalVars(f) == { f.cmd.vars[i][1] : i \in 1..Len(f.cmd.vars) }

\* C11: in the scope derived for an invocation, a local variable that no
\* positional argument overrides holds its template evaluated against the
\* scope the command was called with, whatever the other local variables
\* and the positional arguments of the command are.
C11_VarsSeeParentOnly ==
    \A d \in Entered :
        LET f == stack[d]
        IN  \A i \in 1..Len(f.cmd.vars) :
                f.cmd.vars[i][1] \notin BoundArgs(f) =>
                    /\ f.cmd.vars[i][1] \in DOMAIN heap[f.scope]
                    /\ heap[f.scope][f.cmd.vars[i][1]]
                          = TTeval(f.cmd.vars[i][2], f.snap)

\* cli:deploy was called with an argument for target: its variable cwd,
\* whose template is {target}, holds what the caller's scope had for
\* target, neither the local variable target nor the argument.
C11_Witness ==
    /\ Len(stack) = 1
    /\ stack[1].hist = << >>
    /\ stack[1].cmd.cname = "cli:deploy"
    /\ stack[1].cargs # << >>
    /\ "target" \in DOMAIN stack[1].snap
    /\ heap[stack[1].scope]["cwd"] = stack[1].snap["target"]
    /\ heap[stack[1].scope]["target"] # stack[1].snap["target"]

\* C12 as stated: a positional name the caller gave no argument for, and
\* that is no local variable, is absent from the derived scope.
C12_OmittedArgAbsent ==
    \A d \in Entered :
        LET f == stack[d]
        IN  \A i \in 1..Len(f.cmd.args) :
                (i > Len(f.cargs) /\ f.cmd.args[i] \notin LocalVars(f)) =>
                    f.cmd.args[i] \notin DOMAIN heap[f.scope]

\* C12 as amended: a positional name the caller gave no argument for (or
\* an empty one), and that is no local variable, is not bound by the
\* derivation: the derived scope has it exactly if the caller's scope
\* had it, with the caller's value.
C12_OmittedArgNotBound ==
    \A d \in Entered :
        LET f == stack[d]
        IN  \A i \in 1..Len(f.cmd.args) :
                LET p == f.cmd.args[i]
                IN  (p \notin BoundArgs(f) /\ p \notin LocalVars(f)) =>
                        /\ p \in DOMAIN heap[f.scope] <=> p \in DOMAIN f.snap
                        /\ p \in DOMAIN f.snap => heap[f.scope][p] = f.snap[p]

\* build was called with no argument from a scope that has target and no
\* source: its scope has the caller's target and no source.
C12_Witness ==
    /\ Len(stack) = 1
    /\ stack[1].hist = << >>
    /\ stack[1].cmd.cname = "build"
    /\ stack[1].cargs = << >>
    /\ "source" \notin DOMAIN heap[stack[1].scope]
    /\ "target" \in DOMAIN heap[stack[1].scope]
    /\ heap[stack[1].scope]["target"] = stack[1].snap["target"]

-----------------------------------------------------------------------------
(* Properties of the git layer, of runs of the site's commands.            *)

\* The last core command that touched the working copy or the record.
LastCore == coreLog.last

\* The core command before it.
PrevCore == coreLog.prev

\* The call rec ran git <sub>.
Ran(rec, sub) == Includes(rec.gitlog, sub)

\* How many times rec ran git <sub>.
Times(rec, sub) ==
    Cardinality({ i \in 1..Len(rec.gitlog) : rec.gitlog[i] = sub })

\* rec is a call of fn that returned.
Returned(rec, fn) == rec.fn = fn /\ rec.err = NoErr /\ rec.end = ""

\* The working copy is on branch, which has no commit, with nothing
\* tracked, nothing staged and nothing left in the directory.
OrphanClean(w, branch) ==
    /\ w.head = branch
    /\ w.commit = ""
    /\ ~w.tracked
    /\ ~w.staged
    /\ ~w.dirty

\* C13: when git-clone reaches Git.checkout(path, branch) and the remote
\* has no branch of that name (no remote-tracking ref), the working copy
\* is left on a new orphan branch with no tracked files and a clean
\* status; when the remote has the branch, checkout runs checkout -B only,
\* with no orphan step, and does not throw.
C13_CheckoutOrphanThenNormal ==
    (LastCore.fn = "git-clone" /\ Ran(LastCore, "branch")) =>
        /\ LastCore.err = NoErr
        /\ IF LastCore.cargs[2] \in DOMAIN LastCore.after.tracking
           THEN /\ Ran(LastCore, "checkout -B")
                /\ ~Ran(LastCore, "checkout --orphan")
                /\ ~Ran(LastCore, "rm --cached")
                /\ ~Ran(LastCore, "clean")
           ELSE OrphanClean(LastCore.after, LastCore.cargs[2])

\* rec made a commit.
Committed(rec) == rec.after.made = rec.before.made + 1

\* C14: a git-push call that commits makes one commit, pushes once and
\* returns; a second git-push call right after it, with no file changed in
\* between, finds nothing staged: it makes no commit, pushes nothing and
\* returns without error.
C14_PushIdempotent ==
    /\ (LastCore.fn = "git-push" /\ Committed(LastCore)) =>
          /\ Times(LastCore, "commit") = 1
          /\ Times(LastCore, "push") = 1
          /\ Returned(LastCore, "git-push")
    /\ (/\ PrevCore.fn = "git-push"
        /\ Committed(PrevCore)
        /\ LastCore.fn = "git-push"
        /\ LastCore.before = PrevCore.after) =>
          /\ ~Committed(LastCore)
          /\ LastCore.after.made = LastCore.before.made
          /\ ~Ran(LastCore, "push")
          /\ Returned(LastCore, "git-push")

\* A git process of rec that can fail for reasons outside the program
\* (the network, a lock) did fail.
EnvFailed(rec) ==
    \E i \in rec.failed : rec.gitlog[i] \in { "clone", "checkout -B", "pull" }

\* C15: git-clone called on a path with no working copy clones the origin
\* there; on a working copy whose remotes do not include the origin it
\* removes the copy and clones the origin; on a working copy whose remotes
\* include the origin it does not clone.  In every case it returns with
\* the requested branch of the origin checked out at the path.  (Working
\* copies whose current branch has no commit, and git processes failing
\* for outside reasons, are left aside.)
C15_CloneReconciles ==
    LET r      == LastCore
        origin == ResolveOrigin(r.cargs[1])
        branch == r.cargs[2]
    IN  (/\ r.fn = "git-clone"
         /\ ~EnvFailed(r)
         /\ r.before.dir \in { "none", "repo" }
         /\ r.before.dir = "repo" => r.before.commit # "") =>
            /\ r.before.dir = "none" => Ran(r, "clone")
            /\ (r.before.dir = "repo" /\ r.before.origin # origin) =>
                  Ran(r, "clone")
            /\ (r.before.dir = "repo" /\ r.before.origin = origin) =>
                  ~Ran(r, "clone")
            /\ Returned(r, "git-clone")
            /\ r.after.dir = "repo"
            /\ r.after.origin = origin
            /\ r.after.head = branch

\* The git processes that decide whether clone, checkout, add, push and
\* pull did what they are for.  (commit is left aside: it exits non-zero
\* when there is nothing to commit, which git-push takes as "no changes".)
DecidingSteps ==
    { "clone", "checkout -B", "checkout --orphan", "add", "push", "pull" }

\* C16: when the git process of a repository primitive exits non-zero, the
\* core command that called the primitive fails, the process's stderr has
\* been printed, and no later git step of the command runs.
C16_GitFailurePropagates ==
    \A i \in LastCore.failed :
        LastCore.gitlog[i] \in DecidingSteps =>
            /\ LastCore.err # NoErr
            /\ i \in LastCore.shown
            /\ i = Len(LastCore.gitlog)

\* The errors readInfo raises itself, for a repository it cannot read.
RepoStateErrors ==
    { << "Error", "Unable to read branch name from " \o SitePath >>,
      << "Error", "Unable to read commit info from " \o SitePath >> }

\* rec is a git-clone call that failed inside Git.readInfo: readInfo's
\* git processes are the only ones it ran.
FailedInReadInfo(rec) ==
    /\ rec.fn = "git-clone"
    /\ rec.err # NoErr
    /\ rec.gitlog # << >>
    /\ \A i \in 1..Len(rec.gitlog) :
          rec.gitlog[i] \in { "remote", "rev-parse", "log" }

\* C17: the Git.readInfo(path) that git-clone calls first returns null
\* without error when nothing is at the path and when a directory that
\* is no working copy is (git-clone then clones); and when it raises an
\* error, a repository is there and the error is that its branch name or
\* its commit cannot be read.
C17_ReadInfoNullOrRepoError ==
    /\ (LastCore.fn = "git-clone" /\ LastCore.before.dir # "repo") =>
          (~FailedInReadInfo(LastCore) /\ Ran(LastCore, "clone"))
    /\ FailedInReadInfo(LastCore) =>
          (LastCore.before.dir = "repo" /\ LastCore.err \in RepoStateErrors)

\* C18: when readInfo's error that the branch name or the commit of a
\* repository cannot be read ends a command, the command rethrows it
\* whatever its silentFail says, and the top-level command's promise is
\* rejected with it.
C18_RepoStateErrorFatal ==
    (lastRet.name # "" /\ lastRet.raised \in RepoStateErrors) =>
        /\ lastRet.thrown = lastRet.raised
        /\ lastRet.depth = 1 =>
              (cmdState = "rejected" /\ cmdErr = lastRet.raised)

\* The record a target directory holds: a missing file is no entry.
EntriesOf(rec) == IF rec.state = "ok" THEN rec.map ELSE << >>

\* repo#branch of the working copy w.
KeyOf(w) ==
    (IF w.origin = SiteOrigin THEN "site" ELSE "other") \o "#" \o w.head

\* C19: a write-build-record call that returns leaves a record with the
\* keys it had before and the source's repo#branch key, whose value is the
\* source's current commit (a later write for the same pair replaces the
\* earlier value), and every other key keeps the value it had.
C19_RecordMerge ==
    Returned(LastCore, "write-build-record") =>
        LET old == EntriesOf(LastCore.before.record)
            new == EntriesOf(LastCore.after.record)
            key == KeyOf(LastCore.before)
        IN  /\ LastCore.after.record.state = "ok"
            /\ DOMAIN new = DOMAIN old \cup { key }
            /\ new[key] = LastCore.before.commit
            /\ \A k \in DOMAIN old \ { key } : new[k] = old[k]

\* A second write for site#master replaces the first one's commit by the
\* commit made in between, next to another repository's entry.
C19_Witness ==
    /\ Returned(LastCore, "write-build-record")
    /\ KeyOf(LastCore.before) \in DOMAIN EntriesOf(LastCore.before.record)
    /\ LastCore.before.record.map[KeyOf(LastCore.before)] = "s0"
    /\ LastCore.after.record.map[KeyOf(LastCore.before)] = "a1"
    /\ LastCore.after.record.map["other#master"] = "b0"
    /\ LastCore.before.made = 1

\* C20: with no record file, read-build-record returns and leaves the env
\* as it was, and a write-build-record that returns leaves a record with
\* the new entry alone; with a record file that is not JSON or cannot be
\* read, both commands fail with an error raised to the calling command.
C20_RecordReadErrors ==
    LET r == LastCore
    IN  /\ (r.fn = "read-build-record" /\ r.before.record.state = "missing") =>
              (Returned(r, r.fn) /\ r.envAfter = r.envBefore)
        /\ (/\ Returned(r, "write-build-record")
            /\ r.before.record.state = "missing") =>
              DOMAIN EntriesOf(r.after.record) = { KeyOf(r.before) }
        /\ (/\ r.fn \in { "read-build-record", "write-build-record" }
            /\ r.before.record.state \in { "malformed", "unreadable" }) =>
              (r.err # NoErr /\ r.end = "")

-----------------------------------------------------------------------------
\* C28: in a command with silentFail, the action that raises is the last
\* one the invocation starts: nothing of actions k+1..n runs afterwards,
\* and the invocation returns without an error right after the raise; an
\* invocation that returns before its last action has done so only
\* because an action raised.
C28_SuppressionEndsSequence ==
    \A v \in Invocations :
        v.silent =>
            /\ InOrder(v.hist)
            /\ \A j \in 1..Len(v.hist) :
                  v.hist[j].e = "raise" =>
                      /\ j = Len(v.hist)
                      /\ \A m \in 1..Len(v.hist) : v.hist[m].i <= v.hist[j].i
            /\ v.returned =>
                  /\ v.thrown = NoErr
                  /\ \/ /\ Len(v.hist) = 2 * Len(v.calls)
                        /\ v.hist[Len(v.hist)].e = "done"
                     \/ /\ v.hist # << >>
                        /\ v.hist[Len(v.hist)].e = "raise"

\* A command with silentFail and three actions has returned, without an
\* error, after its first action raised.
C28_Witness ==
    /\ lastRet.name = "cli:retry"
    /\ lastRet.silent
    /\ Len(lastRet.calls) = 3
    /\ RaisedAt(lastRet.hist, 1)
    /\ Len(lastRet.hist) = 2
    /\ lastRet.thrown = NoErr

\* C29: run() settles only once the named command has run all of its
\* actions: while an invocation is still on the stack, run() has not
\* settled and "Done" has not been printed; and an error the command ends
\* with has been seen by run()'s own handler.
C29_RunAwaitsCommand ==
    /\ stack # << >> =>
          /\ runState = "pending"
          /\ \A i \in 1..Len(out) : out[i] # "Done"
    /\ cmdState = "rejected" => RunObserved(cmdErr)

-----------------------------------------------------------------------------
(* Properties of support.exec. *)

RECURSIVE JoinLines(_)
\* The text whose lines, separated by newlines, are the given ones.
JoinLines(lines) ==
    IF lines = << >> THEN << >>
    ELSE IF Len(lines) = 1 THEN lines[1]
    ELSE lines[1] \o << NL >> \o JoinLines(Tail(lines))

NoNewline(line) == \A i \in 1..Len(line) : line[i] # NL

\* C25: however the output of the process arrives in chunks, the lines
\* given to the sink of a stream and the text held back make up exactly
\* what has arrived, no line given contains a newline and the text held
\* back is an unfinished line; once the process has exited the lines
\* given are those of the whole output, each once and in order, and exec
\* has resolved with the exit code (it has rejected only if the process
\* could not be spawned and so wrote nothing).
C25_LinesWhateverTheChunks ==
    proc.st \in { "running", "closed" } =>
        \A s \in Streams :
            /\ \A i \in 1..Len(proc.sunk[s]) : NoNewline(proc.sunk[s][i])
            /\ proc.st = "running" =>
                  /\ NoNewline(proc.buf[s])
                  /\ JoinLines(proc.sunk[s] \o << proc.buf[s] >>)
                        = SubSeq(proc.output[s], 1, proc.sent[s])
            /\ proc.st = "closed" =>
                  /\ proc.sunk[s] # << >>
                  /\ JoinLines(proc.sunk[s]) = proc.output[s]
                  /\ proc.settled # "pending"
                  /\ proc.settled = "resolved" => proc.value = proc.code
            /\ proc.settled = "rejected" => proc.sent[s] = 0

\* A process whose output of two lines arrived in three chunks, the
\* first ending inside a line, has exited with code 1.
C25_Witness ==
    /\ proc.st = "closed"
    /\ proc.output["stdout"] = << "a", NL, "b" >>
    /\ proc.chunks["stdout"] = 3
    /\ proc.sunk["stdout"] = << << "a" >>, << "b" >> >>
    /\ proc.code = 1
    /\ proc.settled = "resolved"
    /\ proc.value = 1

-----------------------------------------------------------------------------
(* Properties of the command line. *)

\* The command run() was asked for, while it runs and once it has
\* returned.
TopLevel ==
    (IF stack # << >>
     THEN { [ name |-> stack[1].cmd.cname, hist |-> stack[1].hist ] }
     ELSE { })
    \cup (IF lastRet.name # "" /\ lastRet.depth = 1
          THEN { [ name |-> lastRet.name, hist |-> lastRet.hist ] }
          ELSE { })

\* The positional argument given on the command line, or else the
\* default.
GivenOr(i, default) == IF i <= Len(cmdArgs) THEN cmdArgs[i] ELSE default

C27_EnvOptionsAndPrefix ==
    (cli # NoCli /\ mainPc # "load") =>
        /\ \A i \in 1..Len(cli.E) :
              LET name == Concat(Tail(cli.E[i].name))
              IN  /\ name \in DOMAIN heap[1]
                  /\ heap[1][name] = cli.E[i].value
        /\ cmdName = IF Len(cli.command) = 1
                     THEN "cli:" \o cli.command[1]
                     ELSE JoinColon(cli.command)

-----------------------------------------------------------------------------
(* Properties of the core commands that spawn processes and work on
   directories. *)

\* The scope keys kept to the engine, and the name each of the others
\* has in the environment of a child process.
ReservedKeys == { "__args__", "_commands" }

ChildNameOf ==
    [ workspace |-> "LOCOMOTE_WORKSPACE", target |-> "LOCOMOTE_TARGET",
      source |-> "LOCOMOTE_SOURCE", origin |-> "LOCOMOTE_ORIGIN",
      cwd |-> "LOCOMOTE_CWD", n |-> "LOCOMOTE_N", built |-> "LOCOMOTE_BUILT",
      tmp |-> "LOCOMOTE_TMP", server |-> "LOCOMOTE_SERVER",
      dir |-> "LOCOMOTE_DIR", Emode |-> "LOCOMOTE_EMODE" ]

\* C24: the environment of a child process spawned from a scope has no
\* variable made from a scope key that begins with '_', and has every
\* other scope key k as LOCOMOTE_<K> with the value the scope has for k.
C24_ChildEnvProjection ==
    child.fn # "" =>
        /\ \A name \in DOMAIN child.renv :
              \A k \in DOMAIN child.scope \cap ReservedKeys :
                  name \notin { "LOCOMOTE___ARGS__", "LOCOMOTE__COMMANDS" }
        /\ \A k \in DOMAIN child.scope \ ReservedKeys :
              /\ ChildNameOf[k] \in DOMAIN child.renv
              /\ child.renv[ChildNameOf[k]] = child.scope[k]

\* C30: a core command that removes or makes a directory settles when
\* the file system has done its part: no call of rmdir, git-clone or
\* temp-dir is left with a promise that nothing will ever settle, and a
\* build command does not end its process with its own promise still
\* pending.
C30_DirectoryCommandsSettle ==
    /\ LastCore.fn \in { "rmdir", "git-clone", "temp-dir" } =>
          LastCore.end # "hang"
    /\ (cmdName = "cli:build" /\ mainPc = "exited") => cmdState # "pending"

-----------------------------------------------------------------------------
(* Properties of the watchers. *)

\* The numbers of the events of the given types that happened after
\* tick t - 1 and before tick t, in order.
InWindow(t, types) ==
    LET RECURSIVE From(_)
        From(i) ==
            IF i > Len(watch.happened) THEN << >>
            ELSE (IF watch.happened[i].window = t - 1
                     /\ watch.happened[i].type \in types
                  THEN << [ id |-> watch.happened[i].id,
                            file |-> watch.happened[i].file ] >>
                  ELSE << >>) \o From(i + 1)
    IN  From(1)

\* The first calls the callback of tick t made.
StartedAt(t) ==
    { i \in 1..Len(watch.calls) :
        watch.calls[i].tick = t /\ watch.calls[i].fn \in { "addFiles", "build" } }

\* C21: the added and changed files of a window are collected as
\* additions and the deleted ones as deletions; the tick that ends the
\* window starts exactly one update carrying exactly those paths, and a
\* tick that ends a window without events starts none.
C21_OneUpdatePerWindow ==
    \A t \in 1..watch.ticks :
        LET adds == InWindow(t, { "add", "change" })
            dels == InWindow(t, { "unlink" })
        IN  IF adds = << >> /\ dels = << >>
            THEN \A i \in 1..Len(watch.calls) : watch.calls[i].tick # t
            ELSE /\ Cardinality(StartedAt(t)) = 1
                 /\ \A i \in StartedAt(t) :
                       /\ watch.calls[i].given = adds
                       /\ watch.calls[i].dels = dels

\* How often the event with number id has been handed over in a call.
RECURSIVE TimesGiven(_, _)
TimesGiven(id, calls) ==
    IF calls = << >> THEN 0
    ELSE Cardinality({ j \in 1..Len(calls[1].given) :
                         calls[1].given[j].id = id })
            + TimesGiven(id, Tail(calls))

\* C22: the events a handler noted are handed over in batches made in
\* the order of the ticks, none of them twice, and none of them is
\* missing once every list is empty and every callback has ended.
C22_EachEventInOneBatch ==
    /\ \A i, j \in 1..Len(watch.calls) :
          i < j => watch.calls[i].tick <= watch.calls[j].tick
    /\ \A e \in 1..Len(watch.happened) :
          watch.happened[e].noted =>
              /\ TimesGiven(e, watch.calls) <= 1
              /\ (/\ watch.running = << >>
                  /\ watch.additions = << >>
                  /\ watch.deletions = << >>
                  /\ watch.changes = << >>) =>
                    TimesGiven(e, watch.calls) = 1

\* C23: no two callbacks of the timer are in progress at once.
C23_NoOverlappingUpdates == Len(watch.running) <= 1

-----------------------------------------------------------------------------
(* Properties of git-push, of runs of the site's commands.                 *)

\* The i-th git process of rec exited 0.
ExitedZero(rec, i) == i \in 1..Len(rec.gitlog) /\ i \notin rec.failed

\* The positions at which rec ran git <sub>.
Positions(rec, sub) == { i \in 1..Len(rec.gitlog) : rec.gitlog[i] = sub }

\* C31: git-push runs its git steps in the order add, commit, push; it
\* pushes exactly when its commit made a new commit: no push without a
\* successful commit before it in the same call, and after a successful
\* commit one push, of the branch it was given.
C31_PushIffCommitted ==
    (LastCore.fn = "git-push" /\ LastCore.gitlog # << >>) =>
        /\ Positions(LastCore, "add") = { 1 }
        /\ Positions(LastCore, "commit") = { 2 }
        /\ Positions(LastCore, "push") \subseteq { 3 }
        /\ Ran(LastCore, "push") <=> Committed(LastCore)
        /\ Committed(LastCore) <=> ExitedZero(LastCore, 2)
        /\ Ran(LastCore, "push") => LastCore.gitargs[3] = LastCore.cargs[1]

\* A git-push that committed what add staged, pushed the branch and
\* returned.
C31_Witness ==
    /\ Returned(LastCore, "git-push")
    /\ Committed(LastCore)
    /\ LastCore.gitlog = << "add", "commit", "push" >>
    /\ LastCore.gitargs[3] = LastCore.cargs[1]
    /\ LastCore.failed = { }

-----------------------------------------------------------------------------
(* Properties of the standard build command.                               *)

\* The command that conf/std-build.json defines under name, compiled.
StdCommand(name) ==
    CompileCommand(name,
        StdBuild[CHOOSE i \in DOMAIN StdBuild : StdBuild[i].name = name].def).cmd

\* The registry holds the standard command of that name.
IsStd(name) == Lookup(Commands, name) = StdCommand(name)

\* C33: in the standard build command, with the standard heckle and
\* webpack commands registered, a non-zero exit of the webpack step is
\* swallowed by webpack's silentFail and build goes on to return without
\* error; a non-zero exit of the heckle step is thrown out of build, which
\* never starts the webpack step.
C33_BuildFailsOnHeckleOnly ==
    /\ (/\ lastRet.name = "webpack"
        /\ IsStd("webpack")
        /\ lastRet.calls = StdCommand("webpack").calls
        /\ lastRet.raised # NoErr) =>
          /\ lastRet.thrown = NoErr
          /\ (/\ Len(stack) = lastRet.depth - 1
              /\ stack # << >>
              /\ Top.cmd = StdCommand("build")) =>
                /\ exc = NoErr
                /\ Top.pc = 3
                /\ Top.raised = NoErr
                /\ Top.hist[Len(Top.hist)].e = "done"
                /\ Top.hist[Len(Top.hist)].i = 2
    /\ (/\ lastRet.name = "build"
        /\ lastRet.calls = StdCommand("build").calls
        /\ IsStd("heckle")
        /\ IsStd("webpack")) =>
          IF RaisedAt(lastRet.hist, 1)
          THEN /\ lastRet.thrown # NoErr
               /\ lastRet.thrown = lastRet.hist[Len(lastRet.hist)].err
               /\ \A j \in 1..Len(lastRet.hist) : lastRet.hist[j].i = 1
          ELSE /\ lastRet.thrown = NoErr
               /\ lastRet.raised = NoErr
               /\ Len(lastRet.hist) = 4

\* The standard webpack command has swallowed the non-zero exit of npx
\* and returned to the standard build command, which has both steps done.
C33_Witness ==
    /\ lastRet.name = "webpack"
    /\ IsStd("webpack")
    /\ lastRet.raised = << "Error",
                           "Command \"npx webpack docs \" exited with code 1" >>
    /\ lastRet.thrown = NoErr
    /\ stack # << >>
    /\ Top.cmd = StdCommand("build")
    /\ Top.pc = 3
    /\ IsStd("heckle")

-----------------------------------------------------------------------------
(* Properties of the build record read back.                               *)

\* The commit hashes of the model.
CommitValues == { "s0", "t0", "b0" } \cup { Hashes[i] : i \in DOMAIN Hashes }

\* C35: a read-build-record(source, target, name) that follows a
\* write-build-record(source, target) that returned, with nothing changed
\* in between, returns and sets the scope variable name to the current
\* commit of the source; a read-build-record that finds no record file
\* leaves the scope as it was, and one that finds a record without the
\* source's repo#branch entry gives the variable no commit value.
C35_RecordRoundTrip ==
    /\ (/\ Returned(PrevCore, "write-build-record")
        /\ LastCore.fn = "read-build-record"
        /\ Len(LastCore.cargs) = 3
        /\ SubSeq(LastCore.cargs, 1, 2) = PrevCore.cargs
        /\ LastCore.before = PrevCore.after) =>
          /\ Returned(LastCore, "read-build-record")
          /\ LastCore.after = LastCore.before
          /\ LastCore.cargs[3] \in DOMAIN LastCore.envAfter
          /\ LastCore.envAfter[LastCore.cargs[3]] = LastCore.before.commit
          /\ LastCore.before.commit \in CommitValues
          /\ \A k \in DOMAIN LastCore.envBefore \ { LastCore.cargs[3] } :
                LastCore.envAfter[k] = LastCore.envBefore[k]
    /\ (/\ Returned(LastCore, "read-build-record")
        /\ LastCore.before.record.state = "missing") =>
          LastCore.envAfter = LastCore.envBefore
    /\ (/\ Returned(LastCore, "read-build-record")
        /\ LastCore.before.record.state = "ok"
        /\ KeyOf(LastCore.before) \notin
              DOMAIN EntriesOf(LastCore.before.record)) =>
          /\ LastCore.cargs[3] \in DOMAIN LastCore.envAfter
          /\ LastCore.envAfter[LastCore.cargs[3]] \notin CommitValues

\* The record written after a commit was made is read back: the variable
\* holds that commit, which replaced the one recorded before.
C35_Witness ==
    /\ Returned(PrevCore, "write-build-record")
    /\ Returned(LastCore, "read-build-record")
    /\ LastCore.before = PrevCore.after
    /\ PrevCore.before.record.state = "ok"
    /\ KeyOf(PrevCore.before) \in DOMAIN PrevCore.before.record.map
    /\ PrevCore.before.record.map[KeyOf(PrevCore.before)] = "s0"
    /\ LastCore.envAfter["built"] = "a1"
    /\ "built" \notin DOMAIN LastCore.envBefore

-----------------------------------------------------------------------------
(* Properties of a flush of the file watcher.                              *)

\* The callback of tick t has ended.
FlushEnded(t) == \A i \in 1..Len(watch.running) : watch.running[i].tick # t

\* The calls of fn the callback of tick t made.
CallsOf(t, fn) ==
    { i \in 1..Len(watch.calls) :
        watch.calls[i].tick = t /\ watch.calls[i].fn = fn }

\* C36: in watchFiles every tick starts a flush, whether or not an
\* earlier flush failed; the flush hands the additions it captured to
\* addFiles and, by the time its callback has ended, the deletions it
\* captured to removeFiles, also when its addFiles failed.
C36_FlushAppliesAllCaptured ==
    watch.kind = "files" =>
        \A t \in 1..watch.ticks :
            /\ Cardinality(CallsOf(t, "addFiles")) = 1
            /\ \A i \in CallsOf(t, "addFiles") :
                  /\ watch.calls[i].given = InWindow(t, { "add", "change" })
                  /\ watch.calls[i].dels = InWindow(t, { "unlink" })
                  /\ FlushEnded(t) =>
                        \A d \in 1..Len(watch.calls[i].dels) :
                            \E j \in CallsOf(t, "removeFiles") :
                                Includes(watch.calls[j].given,
                                         watch.calls[i].dels[d])

-----------------------------------------------------------------------------
(* Properties of the source watcher of the dev server.                     *)

\* The event with number id waits in the list of changes for the next
\* tick.
Pending(id) ==
    \E j \in 1..Len(watch.changes) : watch.changes[j].id = id

\* C37: in watchSource no update of a file of the source (added, changed
\* or removed) is dropped: it waits in the list the next tick hands over,
\* or a build has been called with a list of files that holds its path.
\* (An update that is dropped is never followed by such a build, however
\* often the timer ticks.)
C37_EveryUpdateReachesABuild ==
    watch.kind = "source" =>
        \A e \in 1..Len(watch.happened) :
            \/ Pending(watch.happened[e].id)
            \/ \E i \in 1..Len(watch.calls) :
                  /\ watch.calls[i].fn = "build"
                  /\ \E j \in 1..Len(watch.calls[i].given) :
                        /\ watch.calls[i].given[j].id = watch.happened[e].id
                        /\ watch.calls[i].given[j].file = watch.happened[e].file

-----------------------------------------------------------------------------
(* Properties of the actions of a compiled command.                        *)

\* The words of a string, in order.
Words(v) == SelectSeq(v, LAMBDA x : x # WS)

\* A string of words with one run of whitespace between two of them and
\* none before the first or after the last.
Plain(v) ==
    /\ Len(v) % 2 = 1
    /\ \A i \in 1..Len(v) : (v[i] = WS) <=> (i % 2 = 0)

\* The actions of a definition, the single action last.
AllActions(definition) ==
    IF Truthy(definition.action)
    THEN Append(definition.actions.v, definition.action)
    ELSE definition.actions.v

\* The arguments the templates aargs give when each is evaluated on its
\* own against scope.
Evaluated(aargs, scope) == [ a \in 1..Len(aargs) |-> TTeval(aargs[a], scope) ]

\* C38: compileCommand keeps a function action as it is, makes of a string
\* action its first word, the command name, and its other words, the
\* argument templates, takes an array action as [ name, ...templates ],
\* and fails, attaching nothing, when an action is of any other kind; when
\* the action is called, the command of that name is called with one
\* argument for each template, in the template's position: the template
\* evaluated against the scope.
C38_ActionsNormalized ==
    /\ LET c == lastCompile
       IN  (c.name # "" /\ c.before.fn = "" /\ c.before.actions.t # "other"
              /\ AllActions(c.before) # << >>) =>
              LET all == AllActions(c.before)
              IN  /\ (\E i \in 1..Len(all) :
                         all[i].t \notin { "fn", "str", "arr" }) =>
                        /\ c.err = << "Error",
                              "Action must be a function, array or string: "
                                 \o c.name >>
                        /\ ~c.attached
                        /\ Commands = c.regBefore
                  /\ (\A i \in 1..Len(all) :
                         all[i].t \in { "fn", "str", "arr" }) =>
                        /\ c.err = NoErr
                        /\ Len(c.cmd.calls) = Len(all)
                        /\ \A i \in 1..Len(all) :
                              CASE all[i].t = "fn" ->
                                      /\ c.cmd.calls[i].t = "fn"
                                      /\ c.cmd.calls[i].aname = all[i].v[1]
                                [] all[i].t = "str" /\ Plain(all[i].v) ->
                                      /\ c.cmd.calls[i].t = "call"
                                      /\ c.cmd.calls[i].aname
                                            = Words(all[i].v)[1]
                                      /\ c.cmd.calls[i].aargs
                                            = Tail(Words(all[i].v))
                                [] all[i].t = "arr" /\ all[i].v # << >> ->
                                      /\ c.cmd.calls[i].t = "call"
                                      /\ c.cmd.calls[i].aname = all[i].v[1]
                                      /\ c.cmd.calls[i].aargs = Tail(all[i].v)
                                [] OTHER -> TRUE
    /\ \A d \in 1..Len(stack) :
          LET f == stack[d]
          IN  f.pc <= Len(f.cmd.calls) =>
                LET call == f.cmd.calls[f.pc]
                IN  /\ (f.running /\ call.t = "fn") =>
                          (f.cur.fn = call.aname /\ f.cur.cargs = << >>)
                    /\ (f.running /\ call.t = "call") =>
                          /\ f.cur.fn = Lookup(Commands, call.aname).fn
                          /\ f.cur.cargs
                                = Evaluated(call.aargs, heap[f.scope])
                    /\ (d < Len(stack) /\ exc = NoErr) =>
                          /\ call.t = "call"
                          /\ stack[d + 1].cmd = Lookup(Commands, call.aname)
                          /\ stack[d + 1].cargs
                                = Evaluated(call.aargs, stack[d + 1].snap)
                          /\ stack[d + 1].snap = heap[f.scope]

\* An array action is being called: exec gets 'ls' and the directory
\* that {cwd} names in the scope, in the places the array gave them.
C38_Witness ==
    /\ stack # << >>
    /\ Top.running
    /\ Top.pc <= Len(Top.cmd.calls)
    /\ Top.cmd.calls[Top.pc] =
          [ t |-> "call", aname |-> "exec", aargs |-> << "ls", "{cwd}" >> ]
    /\ Top.cur.fn = "exec"
    /\ Top.cur.cargs = << "ls", heap[Top.scope]["cwd"] >>
    /\ heap[Top.scope]["cwd"] \in TmpDirs
    /\ lastCompile.err = NoErr

-----------------------------------------------------------------------------
(* Properties of npm-install.                                              *)

\* C34: npm-install, given a source, either links the origin's
\* node_modules into the source location or runs npm install; it links
\* exactly when the source location has no node_modules, the origin is
\* local, has the source branch checked out and has a node_modules
\* directory; and it runs npm install with the source location as the
\* working directory, whatever cwd the scope it was called with holds.
C34_NpmInstallInSource ==
    child.fn = "npm-install" =>
        /\ child.how \in { "link", "spawn" }
        /\ child.how = "link" <=>
              /\ ~child.facts.sourceMods
              /\ child.facts.local
              /\ child.facts.originInfo = child.source
              /\ child.facts.originMods
        /\ child.how = "spawn" => child.cwd = child.at

-----------------------------------------------------------------------------
(* Properties of build-from-git.                                           *)

\* The event of frame's history at which action k started, 0 if none.
StartOf(frame, k) ==
    LET at == { j \in 1..Len(frame.hist) :
                  frame.hist[j].e = "start" /\ frame.hist[j].i = k }
    IN IF at = { } THEN 0 ELSE CHOOSE j \in at : TRUE

\* The build-from-git command of conf/std-build.json, compiled.
BuildFromGit ==
    CompileCommand("build-from-git",
        StdBuildCli[CHOOSE i \in DOMAIN StdBuildCli :
                        StdBuildCli[i].name = "build-from-git"].def).cmd

\* The frames of the standard build-from-git that have started git-push.
Pushing ==
    { d \in 1..Len(stack) :
        /\ stack[d].cmd = BuildFromGit
        /\ StartOf(stack[d], 6) # 0 }

\* The clones, the install, the build and the record write of frame have
\* each started and returned, one after the other, before git-push started.
StepsInOrder(frame) ==
    /\ StartOf(frame, 6) = 11
    /\ \A k \in 1..5 :
          /\ frame.hist[2 * k - 1].e = "start"
          /\ frame.hist[2 * k - 1].i = k
          /\ frame.hist[2 * k].e = "done"
          /\ frame.hist[2 * k].i = k

\* A commit made by git-push has the record of write-build-record in it:
\* write-build-record returned right before git-push and nothing rewrote
\* the record in between.
RecordBeforeCommit ==
    (/\ LastCore.fn = "git-push"
     /\ Committed(LastCore)) =>
        /\ Returned(PrevCore, "write-build-record")
        /\ LastCore.before.record = PrevCore.after.record

\* C32: in build-from-git the target branch is pushed only after both
\* clones, the install, the build and the record write have completed
\* successfully, in that order: when git-push has started, each of the
\* five steps before it has returned and no process any of them ran has
\* exited non-zero; and the build record is written before the commit
\* that is pushed.
C32_PushOnlyAfterSuccess ==
    \A d \in Pushing :
        /\ StepsInOrder(stack[d])
        /\ stack[d].failures \cap 1..5 = { }
        /\ d = Len(stack) => RecordBeforeCommit

====
